---- MODULE Spec2Model ----
(***************************************************************************)
(* Arduino RoboLab: the code generation pipeline (block registry, program  *)
(* AST, ProgramValidator, CodeGenerator).                                  *)
(*                                                                         *)
(* Text is modelled as a sequence of atoms.  An atom is an indivisible     *)
(* piece of text: a literal fragment, a newline "\n", one indent unit      *)
(* "  ", or a token "{name}".  str.replace, splitlines, join, strip and    *)
(* the indentation helper work on atoms exactly as the Python functions    *)
(* work on characters.                                                     *)
(***************************************************************************)
EXTENDS Integers, Sequences, FiniteSets, TLC

VARIABLES program, gen, builds, sketches, validation, calls, heap, document, loaded,
          project, scene, last

vars == <<program, gen, builds, sketches, validation, calls, heap, document, loaded,
          project, scene, last>>

(***************************************************************************)
(* Bounds of the model.                                                    *)
(***************************************************************************)
MaxBuilds == 2

MaxSketches == 2

MaxLoop == 2

(***************************************************************************)
(* Text helpers.                                                           *)
(***************************************************************************)
NL == "\n"

INDENT == "  "

None == "None"

Tok(key) == "{" \o key \o "}"

RECURSIVE Replace(_, _, _)
\* str.replace(old, new) for an atom old: every occurrence, left to right
Replace(text, old, new) ==
  IF text = <<>> THEN <<>>
  ELSE IF Len(text) = 1 THEN (IF text[1] = old THEN new ELSE text)
  ELSE Replace(SubSeq(text, 1, Len(text) \div 2), old, new)
       \o Replace(SubSeq(text, Len(text) \div 2 + 1, Len(text)), old, new)

\* the pieces of text between the separator positions seps
pieces_between(text, seps) ==
  [k \in 1..(Len(seps) + 1) |->
     SubSeq(text, IF k = 1 THEN 1 ELSE seps[k - 1] + 1,
                  IF k = Len(seps) + 1 THEN Len(text) ELSE seps[k] - 1)]

\* str.split(sep): the pieces between the occurrences of sep
Split(text, sep) ==
  pieces_between(text, SelectSeq([i \in 1..Len(text) |-> i], LAMBDA i : text[i] = sep))

\* a final newline opens no further line
drop_final_empty(pieces) ==
  IF pieces[Len(pieces)] = <<>> THEN SubSeq(pieces, 1, Len(pieces) - 1) ELSE pieces

\* str.splitlines()
splitlines(text) == drop_final_empty(Split(text, NL))

RECURSIVE Join(_, _)
\* sep.join(lines)
Join(lines, sep) ==
  IF lines = <<>> THEN <<>>
  ELSE IF Len(lines) = 1 THEN lines[1]
  ELSE Join(SubSeq(lines, 1, Len(lines) \div 2), sep) \o <<sep>>
       \o Join(SubSeq(lines, Len(lines) \div 2 + 1, Len(lines)), sep)

IsSpace(atom) == atom \in {NL, INDENT, " ", ""}

\* text between its first and last atoms at the positions solid
between_solid(text, solid, left, right) ==
  IF solid = {} THEN <<>>
  ELSE SubSeq(text,
              IF left THEN CHOOSE i \in solid : \A j \in solid : i <= j ELSE 1,
              IF right THEN CHOOSE i \in solid : \A j \in solid : j <= i ELSE Len(text))

\* str.strip()
strip(text) == between_solid(text, {i \in DOMAIN text : ~IsSpace(text[i])}, TRUE, TRUE)

\* str.lstrip()
lstrip(text) == between_solid(text, {i \in DOMAIN text : ~IsSpace(text[i])}, TRUE, FALSE)

\* f"{indent}{line}" if line else "" for each line
indent_each(lines, indent) ==
  [i \in 1..Len(lines) |-> IF lines[i] # <<>> THEN indent \o lines[i] ELSE <<>>]

_indent_lines(text, indent_level) ==
  Join(indent_each(splitlines(text), [i \in 1..indent_level |-> INDENT]), NL)

(***************************************************************************)
(* Python values held by BlockInstance.values and BlockParameter.default.  *)
(***************************************************************************)
IntV(n) == [k |-> "int", n |-> n, s |-> <<>>]

StrV(s) == [k |-> "str", n |-> 0, s |-> s]

InfV == [k |-> "float_inf", n |-> 0, s |-> <<>>]

ListV == [k |-> "list", n |-> 0, s |-> <<>>]

NoneV == [k |-> "None", n |-> 0, s |-> <<>>]

\* the integers whose decimal form occurs as an atom of the inputs
IntLiterals == {2, 3, 12, 13, 99, 500, 1000, 9600}

\* str(value)
str(value) ==
  CASE value.k = "int" -> <<ToString(value.n)>>
    [] value.k = "str" -> value.s
    [] value.k = "float_inf" -> <<"inf">>
    [] value.k = "list" -> <<"[]">>
    [] OTHER -> <<"None">>

Ok(n) == [exc |-> "none", n |-> n]

Raise(exc) == [exc |-> exc, n |-> 0]

\* int(text) of a str: one decimal atom parses, anything else is a ValueError
int_of_str(text) ==
  IF Len(text) = 1 /\ \E n \in IntLiterals : ToString(n) = text[1]
  THEN Ok(CHOOSE n \in IntLiterals : ToString(n) = text[1])
  ELSE Raise("ValueError")

\* int(value)
int(value) ==
  CASE value.k = "int" -> Ok(value.n)
    [] value.k = "str" -> int_of_str(value.s)
    [] value.k = "float_inf" -> Raise("OverflowError")
    [] OTHER -> Raise("TypeError")

(***************************************************************************)
(* Section, BlockParameter, BlockContainerSpec, BlockDefinition.           *)
(***************************************************************************)
Section == {"includes", "globals", "setup", "loop", "functions"}

BlockParameter(name, type, default) == [name |-> name, type |-> type, default |-> default]

BlockContainerSpec(name, section, placeholder) ==
  [name |-> name, section |-> section, placeholder |-> placeholder]

BlockDefinition(block_id, kind, section, template, parameters, setup, globals, includes, functions, containers) ==
  [block_id |-> block_id, kind |-> kind, section |-> section, template |-> template,
   parameters |-> parameters, setup_snippets |-> setup, globals_snippets |-> globals,
   includes |-> includes, functions_snippets |-> functions, containers |-> containers]

\* the built-in definitions of the fallback payload
FallbackDefinitions ==
  [ EV_START |-> BlockDefinition("EV_START", "event", None, <<>>, <<>>, <<>>, <<>>, <<>>, <<>>,
        << BlockContainerSpec("setup", "setup", None), BlockContainerSpec("loop", "loop", None) >>),
    LS_LED_ON |-> BlockDefinition("LS_LED_ON", "statement", "loop",
        <<"digitalWrite(", "{pin}", ", HIGH);">>,
        << BlockParameter("pin", "int", IntV(13)) >>,
        << <<"pinMode(", "{pin}", ", OUTPUT);">> >>, <<>>, <<>>, <<>>, <<>>),
    TM_DELAY |-> BlockDefinition("TM_DELAY", "statement", "loop",
        <<"delay(", "{ms}", ");">>,
        << BlockParameter("ms", "int", IntV(1000)) >>,
        <<>>, <<>>, <<>>, <<>>, <<>>),
    CTL_IF |-> BlockDefinition("CTL_IF", "statement", "loop",
        <<"if (", "{condition}", ") {", NL, "{then}", NL, "}">>,
        << BlockParameter("condition", "string", StrV(<<"true">>)) >>,
        <<>>, <<>>, <<>>, <<>>,
        << BlockContainerSpec("then", "loop", "then") >>) ]

\* further catalog entries of the structured payload shape
CatalogDefinitions ==
  [ IO_READ |-> BlockDefinition("IO_READ", "statement", None,
        <<"digitalRead(", "{pin}", ");">>,
        << BlockParameter("pin", "digital_pin", NoneV) >>,
        <<>>, <<>>, <<>>, <<>>, <<>>),
    IO_COPY |-> BlockDefinition("IO_COPY", "statement", None,
        <<"digitalWrite(", "{dst}", ", digitalRead(", "{src}", "));">>,
        << BlockParameter("src", "digital_pin", IntV(2)), BlockParameter("dst", "digital_pin", IntV(13)) >>,
        <<>>, <<>>, <<>>, <<>>, <<>>),
    LCD_PRINT |-> BlockDefinition("LCD_PRINT", "statement", "loop",
        <<"lcd.print(", "{text}", ");">>,
        << BlockParameter("text", "string", StrV(<<"hi">>)) >>,
        << <<"Wire.begin();", NL, "lcd.init();">> >>,
        << <<"int count_", "{id}", " = 0;">> >>,
        << <<"#include <Wire.h>">> >>,
        << <<"void tick();">> >>,
        <<>>),
    SR_BEGIN |-> BlockDefinition("SR_BEGIN", "statement", "setup",
        <<"Serial.begin(", "{baud}", ");">>,
        << BlockParameter("baud", "int", IntV(9600)) >>,
        <<>>, <<>>, <<>>, <<>>, <<>>),
    FN_BLINK |-> BlockDefinition("FN_BLINK", "statement", "loop",
        <<"blink();">>, <<>>, <<>>, <<>>, <<>>,
        << <<"void blink(", ") {", NL, "digitalWrite(13, HIGH);", NL, "}">> >>,
        <<>>),
    CTL_REPEAT |-> BlockDefinition("CTL_REPEAT", "statement", None,
        <<"for (;;", ") {", NL, "{body}", NL, "}">>, <<>>,
        <<>>, <<>>, <<>>, <<>>,
        << BlockContainerSpec("body", "loop", "body") >>) ]

\* BlockRegistry._definitions
Registry == FallbackDefinitions @@ CatalogDefinitions

\* BoardProfile
Board == [board_id |-> "uno", name |-> "Arduino Uno", digital |-> <<2, 3, 12, 13>>]

(***************************************************************************)
(* BlockInstance and ProgramNode.  An Optional block is a sequence of      *)
(* length at most one.                                                     *)
(***************************************************************************)
BlockInstance(instance_id, definition_id, values, children) ==
  [instance_id |-> instance_id, definition_id |-> definition_id,
   values |-> values, children |-> children]

ProgramNode(board_id, root) == [board_id |-> board_id, root |-> root]

NoValues == [x \in {} |-> NoneV]

NoChildren == [x \in {} |-> <<>>]

\* dict.get(key, default)
get(dict, key, default) == IF key \in DOMAIN dict THEN dict[key] ELSE default

Range(seq) == {seq[i] : i \in DOMAIN seq}

RECURSIVE children_of(_, _)
\* the children of a block under the containers its definition declares, in order
children_of(block, containers) ==
  IF containers = <<>> THEN <<>>
  ELSE get(block.children, Head(containers).name, <<>>) \o children_of(block, Tail(containers))

(***************************************************************************)
(* ProgramValidator.  The state of one validate call is                    *)
(* [errors, used_sections, visited, exc]: exc names the exception that     *)
(* escapes the call ("none" while it is running normally), visited lists   *)
(* the instances walk was called on.                                       *)
(***************************************************************************)
ValidationError(message, block_id) == [message |-> message, block_id |-> block_id]

MsgNoRoot == <<"project has no EV_START root block">>

MsgUnknownBlock == <<"unknown block type">>

MsgMissingParam(name) == <<"parameter '", name, "' is not set">>

MsgBadPin == <<"bad pin format">>

MsgPinUnavailable(pin) == <<"pin D", ToString(pin), " is not available on board ", Board.name>>

MsgNotInt(name) == <<"parameter '", name, "' must be a number">>

MsgLoopEmpty == <<"loop() has no executable blocks">>

MsgSectionEmpty(section) == <<"section '", section, "' is empty">>

AddError(st, err) == [st EXCEPT !.errors = Append(@, err)]

\* int(str(value).replace("A", "")) if str(value).startswith("A") else int(value)
pin_of(value) ==
  IF str(value) # <<>> /\ Head(str(value)) = "A"
  THEN int(StrV(Replace(str(value), "A", <<>>)))
  ELSE int(value)

\* the mutant: the pin is not looked up in the board's digital pin list
pin_result_unchecked(r, block, st) ==
  CASE r.exc \in {"TypeError", "ValueError"} ->
         AddError(st, ValidationError(MsgBadPin, block.instance_id))
    [] r.exc \notin {"none", "TypeError", "ValueError"} -> [st EXCEPT !.exc = r.exc]
    [] OTHER -> st

\* _validate_digital_pin, given r = the outcome of the conversion to int
pin_result(r, block, st) ==
  CASE r.exc \in {"TypeError", "ValueError"} ->
         AddError(st, ValidationError(MsgBadPin, block.instance_id))
    [] r.exc \notin {"none", "TypeError", "ValueError"} -> [st EXCEPT !.exc = r.exc]
    [] r.exc = "none" /\ r.n \notin Range(Board.digital) ->
         AddError(st, ValidationError(MsgPinUnavailable(r.n), block.instance_id))
    [] OTHER -> st

_validate_digital_pin(value, block, st) == pin_result(pin_of(value), block, st)

\* _ensure_int, given r = int(value)
ensure_int_result(r, name, block, st) ==
  CASE r.exc \in {"TypeError", "ValueError"} ->
         AddError(st, ValidationError(MsgNotInt(name), block.instance_id))
    [] r.exc \notin {"none", "TypeError", "ValueError"} -> [st EXCEPT !.exc = r.exc]
    [] OTHER -> st

_ensure_int(value, name, block, st) == ensure_int_result(int(value), name, block, st)

\* the type-specific checks of a parameter whose effective value is value
check_value(param, value, block, st) ==
  IF value = NoneV
  THEN AddError(st, ValidationError(MsgMissingParam(param.name), block.instance_id))
  ELSE IF param.type = "digital_pin" THEN _validate_digital_pin(value, block, st)
  ELSE IF param.type = "int" THEN _ensure_int(value, param.name, block, st)
  ELSE st

\* the body of "for param in definition.parameters"
check_parameter(param, block, st) ==
  check_value(param, get(block.values, param.name, param.default), block, st)

RECURSIVE check_parameters(_, _, _)
check_parameters(params, block, st) ==
  IF params = <<>> \/ st.exc # "none" THEN st
  ELSE check_parameters(Tail(params), block, check_parameter(Head(params), block, st))

\* the mutant: the diagnostic does not carry the instance id
walk_unknown_anonymous(block, st) ==
  AddError(st, ValidationError(MsgUnknownBlock, None))

\* walk, when registry.get raises KeyError
walk_unknown(block, st) ==
  AddError(st, ValidationError(MsgUnknownBlock, block.instance_id))

\* the mutant: the definition's fixed section is not counted
sections_used_by_snippets_only(definition) ==
  (IF definition.setup_snippets # <<>> THEN {"setup"} ELSE {})
  \cup (IF definition.globals_snippets # <<>> THEN {"globals"} ELSE {})

\* the sections a resolved definition marks as used
sections_used_by(definition) ==
  (IF definition.section # None THEN {definition.section} ELSE {})
  \cup (IF definition.setup_snippets # <<>> THEN {"setup"} ELSE {})
  \cup (IF definition.globals_snippets # <<>> THEN {"globals"} ELSE {})

Visit(st, block) == [st EXCEPT !.visited = Append(@, block.instance_id)]

MarkUsed(st, definition) == [st EXCEPT !.used_sections = @ \cup sections_used_by(definition)]

RECURSIVE walk(_, _)
RECURSIVE walk_all(_, _)
\* walk, when the definition is resolved
walk_known(block, definition, st) ==
  walk_all(children_of(block, definition.containers),
           check_parameters(definition.parameters, block, MarkUsed(st, definition)))

walk(block, st) ==
  IF st.exc # "none" THEN st
  ELSE IF block.definition_id \notin DOMAIN Registry
  THEN walk_unknown(block, Visit(st, block))
  ELSE walk_known(block, Registry[block.definition_id], Visit(st, block))

walk_all(blocks, st) ==
  IF blocks = <<>> \/ st.exc # "none" THEN st
  ELSE walk_all(Tail(blocks), walk(Head(blocks), st))

\* the mutant: no early return, the post-traversal checks run as well
validate_no_root_falls_through ==
  [errors |-> <<ValidationError(MsgNoRoot, None), ValidationError(MsgLoopEmpty, None)>>,
   used_sections |-> {}, visited |-> <<>>, exc |-> "none"]

\* validate, when program.root is None
validate_no_root ==
  [errors |-> <<ValidationError(MsgNoRoot, None)>>, used_sections |-> {},
   visited |-> <<>>, exc |-> "none"]

\* "section is empty" for each of the given sections that is missing
section_empty_errors(st, missing_sections) ==
  [st EXCEPT !.errors = @
     \o (IF "loop" \in missing_sections THEN <<ValidationError(MsgSectionEmpty("loop"), None)>> ELSE <<>>)
     \o (IF "setup" \in missing_sections THEN <<ValidationError(MsgSectionEmpty("setup"), None)>> ELSE <<>>)]

\* "loop is empty" when the loop section was never used
loop_empty_error(st) ==
  IF "loop" \notin st.used_sections
  THEN AddError(st, ValidationError(MsgLoopEmpty, None)) ELSE st

\* the diagnostics appended after the traversal; missing sections are
\* reported sorted by value, "loop" before "setup"
post_traversal(st) ==
  section_empty_errors(loop_empty_error(st),
                       (Section \ st.used_sections) \ {"includes", "globals", "functions"})

\* validate after walk(program.root)
after_walk(st) == IF st.exc # "none" THEN st ELSE post_traversal(st)

validate(prog) ==
  IF prog.root = <<>> THEN validate_no_root
  ELSE after_walk(walk(prog.root[1],
                       [errors |-> <<>>, used_sections |-> {}, visited |-> <<>>, exc |-> "none"]))

(***************************************************************************)
(* CodeGenerator.  The object's fields are section_lines, _include_cache   *)
(* and _line_mapping.  While a build call runs, the record also carries    *)
(* exc (the exception escaping the call, "none" if none), raised_at (the   *)
(* instance being processed when it was raised) and visited (the instances *)
(* _process_block was called on, in order).                                *)
(***************************************************************************)
\* CodeGenerator.__init__
NewGenerator ==
  [section_lines |-> [sec \in Section |-> <<>>],
   _include_cache |-> <<>>,
   _line_mapping |-> [x \in {} |-> <<>>],
   exc |-> "none", raised_at |-> None, visited |-> <<>>]

Line(text, block_id) == [text |-> text, block_id |-> block_id]

raise(st, exc, at) == [st EXCEPT !.exc = exc, !.raised_at = at]

\* the include is kept unless its text is already in the cache
add_include_text(st, text, block_id) ==
  IF \E i \in DOMAIN st._include_cache : st._include_cache[i].text = text
  THEN st
  ELSE [st EXCEPT !._include_cache = Append(@, Line(text, block_id))]

_add_include(st, include, block_id) == add_include_text(st, strip(include), block_id)

\* the mutant: the line is put in front of the buffer
_add_line_in_front(st, section, text, block_id) ==
  IF text = <<>> THEN st
  ELSE [st EXCEPT !.section_lines[section] = <<Line(text, block_id)>> \o @]

_add_line(st, section, text, block_id) ==
  IF text = <<>> THEN st
  ELSE [st EXCEPT !.section_lines[section] = Append(@, Line(text, block_id))]

\* context["id"] = block.instance_id, unless a parameter has that name
setdefault_id(params, block) ==
  IF \E i \in DOMAIN params : params[i].key = "id" THEN params
  ELSE Append(params, [key |-> "id", value |-> StrV(<<block.instance_id>>)])

\* context: the declared parameters in order, then "id"
_build_context(block, definition) ==
  setdefault_id([i \in DOMAIN definition.parameters |->
                   [key |-> definition.parameters[i].name,
                    value |-> get(block.values, definition.parameters[i].name,
                                  definition.parameters[i].default)]],
                block)

RECURSIVE replace_all(_, _)
\* for key, value in context.items(): formatted = formatted.replace("{key}", str(value))
replace_all(text, context) ==
  IF context = <<>> THEN text
  ELSE replace_all(Replace(text, Tok(Head(context).key), str(Head(context).value)), Tail(context))

_format(template, context, indent) ==
  IF template = <<>> THEN <<>>
  ELSE _indent_lines(replace_all(template, context), indent)

\* the token names and brace-carrying atoms that occur in the catalog
TokenNames ==
  {"pin", "ms", "condition", "then", "text", "id", "baud", "src", "dst", "setup", "loop", "body"}

BraceAtoms == {") {", "}", "{"}

\* an atom that carries a brace: a replacement field, an opening or a closing brace
IsBrace(atom) == atom \in BraceAtoms \/ \E k \in TokenNames : atom = Tok(k)

\* the exception of a brace that opens or closes no named field, later being
\* the brace-carrying atoms after it: text up to a closing brace is looked up
\* as a field name, anything else is a malformed format string
brace_exc(atom, later) ==
  IF atom # "}" /\ later # <<>> /\ Head(later) = "}" THEN "KeyError" ELSE "ValueError"

\* the formatted text so far, in front of the formatted rest
formatted(piece, rest) ==
  IF rest.exc # "none" THEN rest ELSE [exc |-> "none", text |-> piece \o rest.text]

\* the value of the replacement field atom
field_value(atom, context) ==
  str(context[CHOOSE i \in DOMAIN context : atom = Tok(context[i].key)].value)

RECURSIVE str_format(_, _)
\* str.format(**context): one pass, a field that is no key raises KeyError,
\* a lone brace raises ValueError
str_format(text, context) ==
  IF text = <<>> THEN [exc |-> "none", text |-> <<>>]
  ELSE IF \E k \in TokenNames : Head(text) = Tok(k)
  THEN IF \E i \in DOMAIN context : Head(text) = Tok(context[i].key)
       THEN formatted(field_value(Head(text), context), str_format(Tail(text), context))
       ELSE [exc |-> "KeyError", text |-> <<>>]
  ELSE IF Head(text) \in BraceAtoms
  THEN [exc |-> brace_exc(Head(text), SelectSeq(Tail(text), IsBrace)), text |-> <<>>]
  ELSE formatted(<<Head(text)>>, str_format(Tail(text), context))

\* self._add_include(include.format(**context), block.instance_id)
add_formatted_include(st, f, block) ==
  IF f.exc # "none" THEN raise(st, f.exc, block.instance_id)
  ELSE _add_include(st, f.text, block.instance_id)

RECURSIVE add_includes(_, _, _, _)
add_includes(st, includes, context, block) ==
  IF includes = <<>> \/ st.exc # "none" THEN st
  ELSE add_includes(add_formatted_include(st, str_format(Head(includes), context), block),
                    Tail(includes), context, block)

RECURSIVE add_globals(_, _, _, _)
add_globals(st, snippets, context, block) ==
  IF snippets = <<>> \/ st.exc # "none" THEN st
  ELSE add_globals(_add_line(st, "globals", _format(Head(snippets), context, 0), block.instance_id),
                   Tail(snippets), context, block)

\* self._add_line(Section.FUNCTIONS.value, snippet.format(**context), block.instance_id)
add_formatted_function(st, f, block) ==
  IF f.exc # "none" THEN raise(st, f.exc, block.instance_id)
  ELSE _add_line(st, "functions", f.text, block.instance_id)

RECURSIVE add_functions(_, _, _, _)
add_functions(st, snippets, context, block) ==
  IF snippets = <<>> \/ st.exc # "none" THEN st
  ELSE add_functions(add_formatted_function(st, str_format(Head(snippets), context), block),
                     Tail(snippets), context, block)

RECURSIVE add_setup(_, _, _, _)
add_setup(st, snippets, context, block) ==
  IF snippets = <<>> \/ st.exc # "none" THEN st
  ELSE add_setup(_add_line(st, "setup", _format(Head(snippets), context, 1), block.instance_id),
                 Tail(snippets), context, block)

RECURSIVE add_lines(_, _, _, _)
\* for line in rendered.splitlines(): self._add_line(section, line, block.instance_id)
add_lines(st, section, lines, block_id) ==
  IF lines = <<>> THEN st
  ELSE add_lines(_add_line(st, section, Head(lines), block_id), section, Tail(lines), block_id)

child_indent(container) == IF container.section \in {"setup", "loop"} THEN 1 ELSE 0

\* registry.get raised KeyError
_get_definition_unknown(st, block) == raise(st, "CodeGenerationError", block.instance_id)

\* definition.section or target_section
effective_section(definition, target_section) ==
  IF definition.section # None THEN definition.section ELSE target_section

\* _indent_lines(joined, indent_level + 1) if joined else joined
indent_joined(joined, indent_level) ==
  IF joined # <<>> THEN _indent_lines(joined, indent_level + 1) ELSE joined

\* the text a placeholder container contributes: the children's renderings
\* joined and indented as a unit
join_children(child_texts, indent_level) ==
  indent_joined(Join(SelectSeq(child_texts, LAMBDA t : t # <<>>), NL), indent_level)

\* what _process_block hands back: the generator and the return value
Returned(st, text) == [st |-> st, text |-> text, is_none |-> FALSE]

ReturnedNone(st) == [st |-> st, text |-> <<>>, is_none |-> TRUE]

\* the template lines a rendered block commits to its section buffer
commit_rendered(st, section, rendered, block_id) ==
  IF rendered # <<>> THEN add_lines(st, section, splitlines(rendered), block_id) ELSE st

RECURSIVE _process_block(_, _, _, _)
RECURSIVE _render_template(_, _, _, _, _)
RECURSIVE process_children(_, _, _, _)
RECURSIVE process_containers(_, _, _)
RECURSIVE render_children(_, _, _, _)
RECURSIVE render_containers(_, _, _, _, _)

\* for child in children: self._process_block(child, section, indent)
process_children(st, children, section, indent) ==
  IF children = <<>> \/ st.exc # "none" THEN st
  ELSE process_children(_process_block(Head(children), section, indent, st).st,
                        Tail(children), section, indent)

\* the loop over the containers of a block without a template
process_containers(st, block, containers) ==
  IF containers = <<>> \/ st.exc # "none" THEN st
  ELSE process_containers(
         process_children(st, get(block.children, Head(containers).name, <<>>),
                          Head(containers).section, child_indent(Head(containers))),
         block, Tail(containers))

\* if rendered: child_lines.append(rendered), r being what _process_block returned
collect_rendered(texts, r) ==
  [st |-> r.st, texts |-> IF r.text # <<>> THEN Append(texts, r.text) ELSE texts]

\* the loop over the children of a placeholder container, acc = [st, texts]
render_children(acc, children, section, indent) ==
  IF children = <<>> \/ acc.st.exc # "none" THEN acc
  ELSE render_children(
         collect_rendered(acc.texts, _process_block(Head(children), section, indent, acc.st)),
         Tail(children), section, indent)

\* rendered_children[container.placeholder] = joined, r being the rendered children
placeholder_rendered(rendered_children, container, r, indent_level) ==
  [st |-> r.st,
   rendered_children |->
     Append(rendered_children,
            [key |-> container.placeholder,
             value |-> StrV(join_children(r.texts, indent_level))])]

\* the body of "for container in definition.containers" in _render_template
render_container(acc, definition, block, container, children, indent_level) ==
  IF container.placeholder = None
  THEN [st |-> process_children(acc.st, children, container.section, child_indent(container)),
        rendered_children |->
          Append(acc.rendered_children, [key |-> container.name, value |-> StrV(<<>>)])]
  ELSE placeholder_rendered(
         acc.rendered_children, container,
         render_children([st |-> acc.st, texts |-> <<>>], children,
                         definition.section, indent_level + 1),
         indent_level)

\* the loop over definition.containers in _render_template, acc = [st, rendered_children]
render_containers(acc, definition, block, containers, indent_level) ==
  IF containers = <<>> \/ acc.st.exc # "none" THEN acc
  ELSE render_containers(
         render_container(acc, definition, block, Head(containers),
                          get(block.children, Head(containers).name, <<>>), indent_level),
         definition, block, Tail(containers), indent_level)

\* template.replace("{placeholder}", value) for each container, then _format
format_filled(definition, context, indent_level, r) ==
  [st |-> r.st,
   text |-> _format(replace_all(definition.template, r.rendered_children), context, indent_level)]

_render_template(definition, block, context, indent_level, st) ==
  format_filled(definition, context, indent_level,
                render_containers([st |-> st, rendered_children |-> <<>>], definition, block,
                                  definition.containers, indent_level))

\* _process_block after _render_template returned r
commit_template(section, block, r) ==
  IF r.st.exc # "none" THEN ReturnedNone(r.st)
  ELSE Returned(commit_rendered(r.st, section, r.text, block.instance_id), r.text)

\* the "if definition.template" branch of _process_block
process_template(block, definition, context, section, indent_level, st) ==
  IF section = None
  THEN ReturnedNone(raise(st, "CodeGenerationError", block.instance_id))
  ELSE commit_template(section, block,
                       _render_template(definition, block, context, indent_level, st))

\* _process_block after the include, globals, functions and setup snippets
process_body(block, definition, context, target_section, indent_level, st) ==
  IF st.exc # "none" THEN ReturnedNone(st)
  ELSE IF definition.template # <<>>
  THEN process_template(block, definition, context,
                        effective_section(definition, target_section), indent_level, st)
  ELSE ReturnedNone(process_containers(st, block, definition.containers))

\* the four snippet loops of _process_block
add_snippets(block, definition, context, st) ==
  add_setup(
    add_functions(
      add_globals(
        add_includes(st, definition.includes, context, block),
        definition.globals_snippets, context, block),
      definition.functions_snippets, context, block),
    definition.setup_snippets, context, block)

\* _process_block with the context built
process_with_context(block, definition, context, target_section, indent_level, st) ==
  process_body(block, definition, context, target_section, indent_level,
               add_snippets(block, definition, context, st))

\* _process_block with the definition resolved
process_known(block, definition, target_section, indent_level, st) ==
  process_with_context(block, definition, _build_context(block, definition),
                       target_section, indent_level, st)

\* the generator records the instances _process_block is called on
visit(st, block) == [st EXCEPT !.visited = Append(@, block.instance_id)]

_process_block(block, target_section, indent_level, st0) ==
  IF st0.exc # "none" THEN ReturnedNone(st0)
  ELSE IF block.definition_id \notin DOMAIN Registry
  THEN ReturnedNone(_get_definition_unknown(visit(st0, block), block))
  ELSE process_known(block, Registry[block.definition_id], target_section, indent_level,
                     visit(st0, block))

GlobalsHeader == <<NL, "// ===== Globals =====">>

Blank == Line(<<>>, None)

\* emit(section, header): the header, the section's lines, and a blank line
\* after a non-empty globals, setup or loop section
emit(section_lines, section, header) ==
  (IF header # <<>> THEN <<Line(header, None)>> ELSE <<>>)
  \o section_lines[section]
  \o (IF section \in {"globals", "setup", "loop"} /\ section_lines[section] # <<>>
      THEN <<Blank>> ELSE <<>>)

\* the mutant: the free functions are appended before setup()
emitted_lines_functions_first(section_lines) ==
  emit(section_lines, "includes", <<>>)
  \o emit(section_lines, "globals", GlobalsHeader)
  \o (IF section_lines["functions"] # <<>> THEN section_lines["functions"] \o <<Blank>> ELSE <<>>)
  \o <<Line(<<"void setup() {">>, None)>>
  \o section_lines["setup"]
  \o <<Line(<<"}">>, None), Blank, Line(<<"void loop() {">>, None)>>
  \o section_lines["loop"]
  \o <<Line(<<"}">>, None)>>

\* the entries appended to lines by _assemble_code, in order; each entry
\* advances current_line_no by one
emitted_lines(section_lines) ==
  emit(section_lines, "includes", <<>>)
  \o emit(section_lines, "globals", GlobalsHeader)
  \o <<Line(<<"void setup() {">>, None)>>
  \o section_lines["setup"]
  \o <<Line(<<"}">>, None), Blank, Line(<<"void loop() {">>, None)>>
  \o section_lines["loop"]
  \o <<Line(<<"}">>, None)>>
  \o (IF section_lines["functions"] # <<>> THEN <<Blank>> \o section_lines["functions"] ELSE <<>>)

\* the mutant: the entries tagged with no instance are counted for every instance
tagged_or_untagged(emitted, id) ==
  SelectSeq([i \in 1..Len(emitted) |-> i], LAMBDA i : emitted[i].block_id \in {id, None})

\* the positions of the emitted entries tagged with the instance id
tagged(emitted, id) ==
  SelectSeq([i \in 1..Len(emitted) |-> i], LAMBDA i : emitted[i].block_id = id)

\* the line numbers appended to an instance's list
appended(mapping, id, numbers) ==
  (IF id \in DOMAIN mapping THEN mapping[id] ELSE <<>>) \o numbers

\* the line counter of _assemble_code: entry i of the emitted entries is
\* counted as line current_line_no + i
record_lines(mapping, emitted, current_line_no) ==
  [id \in DOMAIN mapping \cup ({emitted[i].block_id : i \in DOMAIN emitted} \ {None}) |->
     appended(mapping, id, [k \in DOMAIN tagged(emitted, id) |->
                              current_line_no + tagged(emitted, id)[k]])]

\* _assemble_code, given the entries it appended to lines
assembled(st, section_lines, emitted) ==
  [st |-> [st EXCEPT !.section_lines = section_lines,
                     !._include_cache = <<>>,
                     !._line_mapping = record_lines(@, emitted, 0)],
   code |-> strip(Join([i \in DOMAIN emitted |-> emitted[i].text], NL)) \o <<NL>>]

\* _assemble_code after extending the includes section with the cache
assemble(st, section_lines) == assembled(st, section_lines, emitted_lines(section_lines))

\* [st, code]
_assemble_code(st) ==
  assemble(st, [st.section_lines EXCEPT !["includes"] = @ \o st._include_cache])

_sections_as_text(st) ==
  [sec \in Section |-> [i \in DOMAIN st.section_lines[sec] |-> st.section_lines[sec][i].text]]

\* what a build call leaves behind: the generator, and the bundle if it returned
BuildResult(st, code, mapping, sections) ==
  [gen |-> st, exc |-> st.exc, raised_at |-> st.raised_at, visited |-> st.visited,
   code |-> code, mapping |-> mapping, sections |-> sections]

Raised(st) == BuildResult(st, <<>>, [x \in {} |-> <<>>], [sec \in Section |-> <<>>])

\* build, when program.root is None
build_no_root(st) == Raised(raise(st, "CodeGenerationError", None))

\* SketchBundle(code=code, sections=..., mapping=dict(self._line_mapping))
bundle_of(a) == BuildResult(a.st, a.code, a.st._line_mapping, _sections_as_text(a.st))

\* build after _process_block(program.root, None, 0)
build_assemble(st) == IF st.exc # "none" THEN Raised(st) ELSE bundle_of(_assemble_code(st))

\* build on the generator state st0
build_from(prog, st0) ==
  IF prog.root = <<>> THEN build_no_root(st0)
  ELSE build_assemble(
         _process_block(prog.root[1], None, 0,
                        _add_include(st0, <<"#include <Arduino.h>">>, None)).st)

\* CodeGenerator.build on the generator gen0
build(prog, gen0) ==
  build_from(prog, [gen0 EXCEPT !.exc = "none", !.raised_at = None, !.visited = <<>>])

\* build_sketch: a new generator, one build
build_sketch(prog) == build(prog, NewGenerator)

\* dict(self._line_mapping) copies the dict, not the lists: the lists of an
\* earlier bundle are the lists the generator goes on appending to
aliased(bundle, st) ==
  [bundle EXCEPT !.mapping = [b \in DOMAIN @ |-> st._line_mapping[b]]]

(***************************************************************************)
(* The programs the calls are applied to.                                  *)
(***************************************************************************)
Leaf(definition_id, values) == BlockInstance("", definition_id, values, NoChildren)

Nest(definition_id, values, container, children) ==
  BlockInstance("", definition_id, values, (container :> children))

Led(pin) == Leaf("LS_LED_ON", [pin |-> pin])

Delay(ms) == Leaf("TM_DELAY", [ms |-> ms])

Read(pin) == Leaf("IO_READ", [pin |-> pin])

If(children) == Nest("CTL_IF", [condition |-> StrV(<<"digitalRead(2) == LOW">>)], "then", children)

Unknown(children) == Nest("XX_UNKNOWN", NoValues, "then", children)

Repeat(children) == Nest("CTL_REPEAT", NoValues, "body", children)

Lcd(text) == Leaf("LCD_PRINT", [text |-> StrV(text)])

\* the blocks a container's first position is drawn from
FirstMenu ==
  { Led(IntV(13)), Led(IntV(12)), Leaf("LS_LED_ON", NoValues), Led(StrV(<<"abc">>)), Led(NoneV),
    Delay(IntV(500)), Delay(InfV), Delay(ListV),
    Read(IntV(2)), Read(IntV(99)), Read(StrV(<<"99">>)), Read(StrV(<<"A", "3">>)),
    Read(StrV(<<"A", "x">>)), Read(StrV(<<"A", "99">>)), Read(ListV), Read(InfV),
    Leaf("IO_READ", NoValues),
    Leaf("IO_COPY", [src |-> IntV(99), dst |-> IntV(99)]), Leaf("IO_COPY", [src |-> IntV(99)]),
    Leaf("LCD_PRINT", NoValues), Leaf("SR_BEGIN", NoValues),
    Unknown(<<>>), Unknown(<<Led(IntV(12))>>), Unknown(<<Unknown(<<>>)>>),
    If(<<>>), If(<<Led(IntV(12))>>), If(<<Led(IntV(12)), Delay(IntV(500))>>),
    If(<<Unknown(<<>>)>>), If(<<If(<<Led(IntV(12))>>)>>), If(<<Read(IntV(99))>>),
    If(<<Leaf("LCD_PRINT", NoValues)>>),
    Leaf("FN_BLINK", NoValues), Repeat(<<>>), Repeat(<<Led(IntV(12))>>), Repeat(<<Read(IntV(2))>>),
    Lcd(<<Tok("id")>>), If(<<Lcd(<<Tok("condition")>>)>>),
    If(<<Leaf("LCD_PRINT", NoValues), Leaf("LCD_PRINT", NoValues)>>) }

\* the blocks its later positions are drawn from
RestMenu == { Delay(IntV(500)), Led(IntV(12)), Unknown(<<>>), Read(IntV(99)) }

LoopLists ==
  {<<>>} \cup { <<first>> \o rest : first \in FirstMenu,
                rest \in UNION { [1..k -> RestMenu] : k \in 0..(MaxLoop - 1) } }

SetupLists == { <<>>, <<Led(IntV(13))>>, <<Read(IntV(99))>> }

RECURSIVE with_id(_, _)
\* instance ids by position: a child's id extends its parent's
with_id(block, id) ==
  [block EXCEPT !.instance_id = id,
                !.children = [c \in DOMAIN block.children |->
                                [i \in DOMAIN block.children[c] |->
                                   with_id(block.children[c][i], id \o "_" \o ToString(i))]]]

named(blocks, prefix) == [i \in DOMAIN blocks |-> with_id(blocks[i], prefix \o ToString(i))]

Start(setup, loop) ==
  BlockInstance("start", "EV_START", NoValues,
                [setup |-> named(setup, "s"), loop |-> named(loop, "l")])

Programs ==
  { ProgramNode("uno", <<>>) }
  \cup { ProgramNode("uno", <<Start(setup, loop)>>) : setup \in SetupLists, loop \in LoopLists }
  \cup { ProgramNode("uno", <<with_id(root, "start")>>) :
           root \in { Unknown(<<Led(IntV(12))>>), Led(IntV(13)), Read(IntV(2)),
                      BlockInstance("", "EV_START", NoValues, NoChildren) } }

(***************************************************************************)
(* The state machine: a program, a CodeGenerator object and the bundles    *)
(* its build calls returned, the results of build_sketch calls, and the    *)
(* result of validate.                                                     *)
(***************************************************************************)
Bundle(r) == [exc |-> r.exc, raised_at |-> r.raised_at, visited |-> r.visited,
              code |-> r.code, mapping |-> r.mapping, sections |-> r.sections]

Init ==
  /\ program \in Programs
  /\ gen = NewGenerator
  /\ builds = <<>>
  /\ sketches = <<>>
  /\ validation = <<>>
  /\ calls = <<>>
  /\ heap = <<>>
  /\ document = <<>>
  /\ loaded = <<>>
  /\ project = <<>>
  /\ scene = <<>>
  /\ last = <<>>

\* generator = CodeGenerator(registry, board)
Construct ==
  /\ builds # <<>>
  /\ gen' = NewGenerator
  /\ builds' = <<>>
  /\ UNCHANGED <<program, sketches, validation, calls, heap, document, loaded, project, scene, last>>

\* the mutant: the context is the instance's own values map, so that
\* setdefault("id", ...) writes into the AST
Build_context_aliases_values ==
  /\ Len(builds) < MaxBuilds
  /\ \E r \in {build(program, gen)} :
       /\ gen' = r.gen
       /\ builds' = Append([i \in DOMAIN builds |-> aliased(builds[i], r.gen)], Bundle(r))
  /\ program' = IF program.root = <<>> THEN program
                ELSE [program EXCEPT !.root[1].values =
                        [k \in DOMAIN @ \cup {"id"} |->
                           IF k \in DOMAIN @ THEN @[k] ELSE StrV(<<program.root[1].instance_id>>)]]
  /\ UNCHANGED <<sketches, validation, calls, heap, document, loaded, project, scene, last>>

\* generator.build(program)
Build ==
  /\ Len(builds) < MaxBuilds
  /\ \E r \in {build(program, gen)} :
       /\ gen' = r.gen
       /\ builds' = Append([i \in DOMAIN builds |-> aliased(builds[i], r.gen)], Bundle(r))
  /\ UNCHANGED <<program, sketches, validation, calls, heap, document, loaded, project, scene, last>>

\* build_sketch(program, registry, board)
BuildSketch ==
  /\ Len(sketches) < MaxSketches
  /\ sketches' = Append(sketches, Bundle(build_sketch(program)))
  /\ UNCHANGED <<program, gen, builds, validation, calls, heap, document, loaded, project, scene, last>>

\* validate_program(program, registry, board)
Validate ==
  /\ validation' = <<validate(program)>>
  /\ UNCHANGED <<program, gen, builds, sketches, calls, heap, document, loaded, project, scene, last>>

Next == Construct \/ Build \/ BuildSketch \/ Validate

Spec == Init /\ [][Next]_vars

(***************************************************************************)
(* Two calls of build_sketch or validate_program in flight at once, each   *)
(* on its own program, with one registry and one board.  heap holds the    *)
(* objects the calls construct (a CodeGenerator's buffers, a validate      *)
(* call's errors and used_sections); a call is at construct, include,      *)
(* enter, children, assemble (build_sketch) or construct, walk, post       *)
(* (validate_program), then done with its result.                          *)
(***************************************************************************)
\* the mutant: one module-level object serves every call
accumulator_shared(i) == 1

\* the object a call works on: each call constructs its own
accumulator_of(i) == i

NewValidation == [errors |-> <<>>, used_sections |-> {}, visited |-> <<>>, exc |-> "none"]

NewCall(kind, prog) == [kind |-> kind, prog |-> prog, pc |-> "construct", todo |-> <<>>, result |-> <<>>]

Done(call, result) == [call EXCEPT !.pc = "done", !.todo = <<>>, !.result = <<result>>]

RECURSIVE pending(_, _)
\* the _process_block calls the container loop of a block without a template makes
pending(block, containers) ==
  IF containers = <<>> THEN <<>>
  ELSE [i \in DOMAIN get(block.children, Head(containers).name, <<>>) |->
          [child |-> block.children[Head(containers).name][i],
           section |-> Head(containers).section,
           indent |-> child_indent(Head(containers))]]
       \o pending(block, Tail(containers))

\* the two programs and the two entry points of a concurrent run
ConcurrentPrograms ==
  { ProgramNode("uno", <<>>),
    ProgramNode("uno", <<Start(<<>>, <<Led(IntV(13)), Delay(IntV(500))>>)>>),
    ProgramNode("uno", <<Start(<<Led(IntV(12))>>, <<If(<<Led(IntV(12))>>)>>)>>),
    ProgramNode("uno", <<Start(<<>>, <<Leaf("LCD_PRINT", NoValues), Unknown(<<>>)>>)>>),
    ProgramNode("uno", <<Start(<<Read(IntV(99))>>, <<Leaf("LCD_PRINT", NoValues)>>)>>),
    ProgramNode("uno", <<with_id(Led(IntV(13)), "start")>>),
    ProgramNode("uno", <<with_id(Unknown(<<>>), "start")>>) }

EntryPoints == {"build_sketch", "validate_program"}

InitConcurrent ==
  /\ program \in ConcurrentPrograms
  /\ gen = NewGenerator
  /\ builds = <<>>
  /\ sketches = <<>>
  /\ validation = <<>>
  /\ \E other \in ConcurrentPrograms : \E k1 \in EntryPoints : \E k2 \in EntryPoints :
       calls = <<NewCall(k1, program), NewCall(k2, other)>>
  /\ heap = [o \in 1..2 |-> [gen |-> NewGenerator, val |-> NewValidation]]
  /\ document = <<>>
  /\ loaded = <<>>
  /\ project = <<>>
  /\ scene = <<>>
  /\ last = <<>>

\* CodeGenerator(registry, board) / ProgramValidator(registry, board) and errors = []
CallConstruct(i) ==
  /\ calls[i].pc = "construct"
  /\ heap' = [heap EXCEPT ![accumulator_of(i)] =
                IF calls[i].kind = "build_sketch" THEN [@ EXCEPT !.gen = NewGenerator]
                ELSE [@ EXCEPT !.val = NewValidation]]
  /\ calls' = [calls EXCEPT ![i].pc = IF calls[i].kind = "build_sketch" THEN "include" ELSE "walk"]
  /\ UNCHANGED <<program, gen, builds, sketches, validation, document, loaded, project, scene, last>>

\* build: the root check and self._add_include("#include <Arduino.h>", None)
CallInclude(i) ==
  /\ calls[i].pc = "include"
  /\ IF calls[i].prog.root = <<>>
     THEN /\ calls' = [calls EXCEPT ![i] = Done(@, Bundle(build_no_root(heap[accumulator_of(i)].gen)))]
          /\ heap' = heap
     ELSE /\ heap' = [heap EXCEPT ![accumulator_of(i)].gen = _add_include(@, <<"#include <Arduino.h>">>, None)]
          /\ calls' = [calls EXCEPT ![i].pc = "enter"]
  /\ UNCHANGED <<program, gen, builds, sketches, validation, document, loaded, project, scene, last>>

\* the generator after _process_block(root) up to the container loop
entered(root, st) ==
  IF root.definition_id \notin DOMAIN Registry
  THEN _get_definition_unknown(visit(st, root), root)
  ELSE IF Registry[root.definition_id].template # <<>>
  THEN _process_block(root, None, 0, st).st
  ELSE add_snippets(root, Registry[root.definition_id],
                    _build_context(root, Registry[root.definition_id]), visit(st, root))

\* the container loop still to run after entering the root
entered_todo(root) ==
  IF root.definition_id \in DOMAIN Registry /\ Registry[root.definition_id].template = <<>>
  THEN pending(root, Registry[root.definition_id].containers) ELSE <<>>

\* a build call after a step left the generator st: raised, or on to pc
Proceed(call, st, pc, todo) ==
  IF st.exc # "none" THEN Done(call, Bundle(Raised(st)))
  ELSE [call EXCEPT !.pc = pc, !.todo = todo]

\* build: self._process_block(program.root, None, 0), up to the container loop
CallEnter(i) ==
  /\ calls[i].pc = "enter"
  /\ \E st \in {entered(calls[i].prog.root[1], heap[accumulator_of(i)].gen)} :
       /\ heap' = [heap EXCEPT ![accumulator_of(i)].gen = st]
       /\ calls' = [calls EXCEPT ![i] = Proceed(@, st, "children", entered_todo(calls[i].prog.root[1]))]
  /\ UNCHANGED <<program, gen, builds, sketches, validation, document, loaded, project, scene, last>>

\* build: one _process_block call of the root's container loop
CallChild(i) ==
  /\ calls[i].pc = "children"
  /\ calls[i].todo # <<>>
  /\ \E st \in {_process_block(Head(calls[i].todo).child, Head(calls[i].todo).section,
                                Head(calls[i].todo).indent, heap[accumulator_of(i)].gen).st} :
       /\ heap' = [heap EXCEPT ![accumulator_of(i)].gen = st]
       /\ calls' = [calls EXCEPT ![i] = Proceed(@, st, "children", Tail(calls[i].todo))]
  /\ UNCHANGED <<program, gen, builds, sketches, validation, document, loaded, project, scene, last>>

\* build: code = self._assemble_code() and the returned SketchBundle
CallAssemble(i) ==
  /\ calls[i].pc = "children"
  /\ calls[i].todo = <<>>
  /\ \E r \in {bundle_of(_assemble_code(heap[accumulator_of(i)].gen))} :
       /\ heap' = [heap EXCEPT ![accumulator_of(i)].gen = r.gen]
       /\ calls' = [calls EXCEPT ![i] = Done(@, Bundle(r))]
  /\ UNCHANGED <<program, gen, builds, sketches, validation, document, loaded, project, scene, last>>

\* validate: the root check and walk(program.root)
CallWalk(i) ==
  /\ calls[i].pc = "walk"
  /\ IF calls[i].prog.root = <<>>
     THEN /\ calls' = [calls EXCEPT ![i] = Done(@, validate_no_root)]
          /\ heap' = heap
     ELSE \E st \in {walk(calls[i].prog.root[1], heap[accumulator_of(i)].val)} :
            /\ heap' = [heap EXCEPT ![accumulator_of(i)].val = st]
            /\ calls' = [calls EXCEPT ![i] = IF st.exc # "none" THEN Done(@, st)
                                             ELSE [@ EXCEPT !.pc = "post"]]
  /\ UNCHANGED <<program, gen, builds, sketches, validation, document, loaded, project, scene, last>>

\* validate: the checks after the traversal and return errors
CallPost(i) ==
  /\ calls[i].pc = "post"
  /\ \E st \in {post_traversal(heap[accumulator_of(i)].val)} :
       /\ heap' = [heap EXCEPT ![accumulator_of(i)].val = st]
       /\ calls' = [calls EXCEPT ![i] = Done(@, st)]
  /\ UNCHANGED <<program, gen, builds, sketches, validation, document, loaded, project, scene, last>>

NextConcurrent ==
  \/ \E i \in 1..2 : CallConstruct(i)
  \/ \E i \in 1..2 : CallInclude(i)
  \/ \E i \in 1..2 : CallEnter(i)
  \/ \E i \in 1..2 : CallChild(i)
  \/ \E i \in 1..2 : CallAssemble(i)
  \/ \E i \in 1..2 : CallWalk(i)
  \/ \E i \in 1..2 : CallPost(i)

SpecConcurrent == InitConcurrent /\ [][NextConcurrent]_vars

(***************************************************************************)
(* The loaders.  A JSON object is a record of its fields; Absent stands    *)
(* for a key the object does not have, NonString for a value that is not   *)
(* a string, and an item that is not an object has is_mapping = FALSE.     *)
(***************************************************************************)
Absent == "<absent>"

NonString == "<non-string>"

NotMapping == [is_mapping |-> FALSE]

PayloadContainer(name, section, placeholder) ==
  [is_mapping |-> TRUE, name |-> name, section |-> section, placeholder |-> placeholder]

PayloadParameter(name, type, default) ==
  [is_mapping |-> TRUE, name |-> name, type |-> type, default |-> default]

PayloadBlock(id, name, category, kind, section, template, parameters, setup, containers) ==
  [is_mapping |-> TRUE, id |-> id, name |-> name, category |-> category, kind |-> kind,
   section |-> section, template |-> template, parameters |-> parameters, setup |-> setup,
   globals |-> <<>>, includes |-> <<>>, functions |-> <<>>, containers |-> containers]

NoDefinitions == [x \in {} |-> <<>>]

\* what from_mapping leaves: the exception escaping it with its message, or the registry
BlocksLoaderError(message) ==
  [exc |-> "BlocksLoaderError", message |-> message, definitions |-> NoDefinitions]

Escaped(exc) == [exc |-> exc, message |-> <<>>, definitions |-> NoDefinitions]

MsgIncompleteBlock == <<"block definition is missing or incomplete">>

MsgBadContainer(block_id) == <<"bad container description of block ", block_id>>

MsgBadParameter(block_id) == <<"bad parameter description of block ", block_id>>

RECURSIVE parse_containers(_, _)
\* the loop over block_data.get("containers", []): KeyError and ValueError are caught
parse_containers(items, containers) ==
  IF items = <<>> THEN [exc |-> "none", containers |-> containers]
  ELSE IF ~Head(items).is_mapping THEN parse_containers(Tail(items), containers)
  ELSE IF Head(items).name = Absent \/ Head(items).section \notin Section
  THEN [exc |-> "BlocksLoaderError", containers |-> <<>>]
  ELSE parse_containers(
         Tail(items),
         Append(containers,
                BlockContainerSpec(Head(items).name, Head(items).section,
                                   IF Head(items).placeholder \in {Absent, NonString}
                                   THEN None ELSE Head(items).placeholder)))

RECURSIVE parse_parameters(_, _)
\* the loop over block_data.get("parameters", []): KeyError is caught
parse_parameters(items, parameters) ==
  IF items = <<>> THEN [exc |-> "none", parameters |-> parameters]
  ELSE IF ~Head(items).is_mapping THEN parse_parameters(Tail(items), parameters)
  ELSE IF Head(items).name = Absent \/ Head(items).type = Absent
  THEN [exc |-> "BlocksLoaderError", parameters |-> <<>>]
  ELSE parse_parameters(
         Tail(items),
         Append(parameters,
                BlockParameter(Head(items).name, Head(items).type, Head(items).default)))

\* the block's own section: Section.from_string outside any try
own_section(value) ==
  IF value \in {Absent, NonString, ""} THEN [exc |-> "none", section |-> None]
  ELSE IF value \in Section THEN [exc |-> "none", section |-> value]
  ELSE [exc |-> "ValueError", section |-> None]

\* definitions[block_id] = BlockDefinition(...)
with_section(entry, acc, containers, parameters, sec) ==
  IF sec.exc # "none" THEN Escaped(sec.exc)
  ELSE [acc EXCEPT !.definitions =
          (entry.id :> BlockDefinition(entry.id, entry.kind, sec.section, entry.template,
                                       parameters, entry.setup, entry.globals, entry.includes,
                                       entry.functions, containers)) @@ @]

with_parameters(entry, acc, containers, ps) ==
  IF ps.exc # "none" THEN BlocksLoaderError(MsgBadParameter(entry.id))
  ELSE with_section(entry, acc, containers, ps.parameters, own_section(entry.section))

with_containers(entry, acc, cs) ==
  IF cs.exc # "none" THEN BlocksLoaderError(MsgBadContainer(entry.id))
  ELSE with_parameters(entry, acc, cs.containers, parse_parameters(entry.parameters, <<>>))

\* the body of "for block_data in blocks_data"
define_block(entry, acc) ==
  IF ~entry.is_mapping THEN acc
  ELSE IF Absent \in {entry.id, entry.name, entry.category, entry.kind}
  THEN BlocksLoaderError(MsgIncompleteBlock)
  ELSE with_containers(entry, acc, parse_containers(entry.containers, <<>>))

RECURSIVE define_blocks(_, _)
define_blocks(entries, acc) ==
  IF entries = <<>> \/ acc.exc # "none" THEN acc
  ELSE define_blocks(Tail(entries), define_block(Head(entries), acc))

\* BlockRegistry.from_mapping
from_mapping(payload) ==
  define_blocks(payload.blocks, [exc |-> "none", message |-> <<>>, definitions |-> NoDefinitions])

\* _fallback_registry_payload
_fallback_registry_payload ==
  [blocks |-> <<
     PayloadBlock("EV_START", "Start", "events", "event", Absent, <<>>, <<>>, <<>>,
       << PayloadContainer("setup", "setup", Absent), PayloadContainer("loop", "loop", Absent) >>),
     PayloadBlock("LS_LED_ON", "LED on", "logic", "statement", "loop",
       <<"digitalWrite(", "{pin}", ", HIGH);">>,
       << PayloadParameter("pin", "int", IntV(13)) >>,
       << <<"pinMode(", "{pin}", ", OUTPUT);">> >>, <<>>),
     PayloadBlock("TM_DELAY", "Delay", "timing", "statement", "loop",
       <<"delay(", "{ms}", ");">>,
       << PayloadParameter("ms", "int", IntV(1000)) >>, <<>>, <<>>),
     PayloadBlock("CTL_IF", "If", "logic", "statement", "loop",
       <<"if (", "{condition}", ") {", NL, "{then}", NL, "}">>,
       << PayloadParameter("condition", "string", StrV(<<"true">>)) >>, <<>>,
       << PayloadContainer("then", "loop", "then") >>) >>]

\* the block entries structured catalog documents are made of
GoodBlock ==
  PayloadBlock("LS_LED_ON", "LED on", "logic", "statement", "loop",
    <<"digitalWrite(", "{pin}", ", HIGH);">>,
    << PayloadParameter("pin", "int", IntV(13)) >>, <<>>, <<>>)

GoodStart ==
  PayloadBlock("EV_START", "Start", "events", "event", Absent, <<>>, <<>>, <<>>,
    << PayloadContainer("setup", "setup", Absent), PayloadContainer("loop", "loop", NonString) >>)

PayloadBlocks ==
  { GoodBlock, GoodStart, NotMapping,
    [GoodBlock EXCEPT !.id = Absent], [GoodBlock EXCEPT !.name = Absent],
    [GoodBlock EXCEPT !.category = Absent], [GoodBlock EXCEPT !.kind = Absent],
    [GoodBlock EXCEPT !.section = "bogus"], [GoodBlock EXCEPT !.section = ""],
    [GoodBlock EXCEPT !.section = NonString], [GoodBlock EXCEPT !.section = Absent],
    [GoodBlock EXCEPT !.parameters = <<PayloadParameter(Absent, "int", NoneV)>>],
    [GoodBlock EXCEPT !.parameters = <<PayloadParameter("pin", Absent, NoneV)>>],
    [GoodBlock EXCEPT !.parameters = <<NotMapping, PayloadParameter("pin", "int", NoneV)>>],
    [GoodStart EXCEPT !.containers = <<PayloadContainer(Absent, "loop", Absent)>>],
    [GoodStart EXCEPT !.containers = <<PayloadContainer("loop", Absent, Absent)>>],
    [GoodStart EXCEPT !.containers = <<PayloadContainer("loop", "bogus", Absent)>>],
    [GoodStart EXCEPT !.containers = <<NotMapping, PayloadContainer("loop", "loop", "body")>>] }

MaxBlocks == 2

Payloads ==
  { [kind |-> "payload", blocks |-> blocks] :
      blocks \in UNION { [1..n -> PayloadBlocks] : n \in 0..MaxBlocks } }

(***************************************************************************)
(* load_project_file: the nodes of a persisted project, the alias map and  *)
(* the known block ids it is called with.                                  *)
(***************************************************************************)
ProjectNode(uid, type) == [is_mapping |-> TRUE, uid |-> uid, type |-> type]

\* the canvas BlockInstance(uid, type_id, ...)
CanvasBlock(uid, type_id) == [uid |-> uid, type_id |-> type_id]

\* the methods class ProjectModel defines
ProjectModelMethods ==
  {"to_dict", "from_dict", "create_block", "remove_block", "find_block", "add_connection",
   "remove_connection", "find_connections_of", "clone", "save_to_file", "load_from_file"}

\* str(node.get(key, ""))
node_str(value) == IF value = Absent THEN "" ELSE value

\* the canonical type of a node type under the alias map
canonical_type(type_id, alias_map, known_ids) ==
  IF DOMAIN alias_map # {} /\ type_id \in DOMAIN alias_map THEN alias_map[type_id] ELSE type_id

\* model.add_block(block): attribute lookup on ProjectModel, then the call
add_block(acc, block) ==
  IF "add_block" \in ProjectModelMethods
  THEN [acc EXCEPT !.blocks = Append(@, block)]
  ELSE [acc EXCEPT !.exc = "AttributeError"]

\* the body of "for node in data.get('nodes', [])"
load_node(node, alias_map, known_ids, acc) ==
  IF ~node.is_mapping \/ node_str(node.type) = "" THEN acc
  ELSE add_block(acc,
                 CanvasBlock(IF node_str(node.uid) # "" THEN node_str(node.uid) ELSE node_str(node.type),
                             canonical_type(node_str(node.type), alias_map, known_ids)))

RECURSIVE load_nodes(_, _, _, _)
load_nodes(nodes, alias_map, known_ids, acc) ==
  IF nodes = <<>> \/ acc.exc # "none" THEN acc
  ELSE load_nodes(Tail(nodes), alias_map, known_ids,
                  load_node(Head(nodes), alias_map, known_ids, acc))

\* load_project_file(path, aliases=..., known_blocks=...): the blocks of the returned model
load_project_file(doc) ==
  load_nodes(doc.nodes, doc.aliases, doc.known_blocks, [exc |-> "none", blocks |-> <<>>])

ProjectNodes ==
  { NotMapping, ProjectNode("a", "OLD_LED"), ProjectNode("b", "LS_LED_ON"),
    ProjectNode(Absent, "XX_UNKNOWN"), ProjectNode("c", ""), ProjectNode("d", Absent) }

AliasMaps == { [x \in {} |-> ""], [OLD_LED |-> "LS_LED_ON"] }

KnownBlocks == { {}, {"LS_LED_ON", "EV_START"} }

MaxNodes == 2

Projects ==
  { [kind |-> "project", nodes |-> nodes, aliases |-> aliases, known_blocks |-> known] :
      nodes \in UNION { [1..n -> ProjectNodes] : n \in 0..MaxNodes },
      aliases \in AliasMaps, known \in KnownBlocks }

(***************************************************************************)
(* load_blocks on a list-shaped (palette) catalog document, and the        *)
(* registry BlockRegistry.load_from_file builds from it.                   *)
(***************************************************************************)
\* a text field the entry does not have
AbsentText == <<Absent>>

\* an entry of the list: id and category are texts, AbsentText when the key is missing
ListEntry(id, category, aliases) ==
  [is_mapping |-> TRUE, id |-> id, category |-> category, aliases |-> aliases]

\* str(entry.get(key, "")).strip()
entry_text(value) == IF value = AbsentText THEN <<>> ELSE strip(value)

RECURSIVE set_aliases(_, _, _)
\* for alias in aliases: alias_map.setdefault(alias, identifier)
set_aliases(alias_map, aliases, identifier) ==
  IF aliases = <<>> THEN alias_map
  ELSE set_aliases(alias_map @@ (Head(aliases) :> identifier), Tail(aliases), identifier)

\* the body of "for entry in payload" in _load_from_list
load_entry(entry, acc) ==
  IF ~entry.is_mapping \/ entry_text(entry.id) = <<>> \/ entry_text(entry.category) = <<>>
  THEN acc
  ELSE [acc EXCEPT !.blocks = Append(@, entry_text(entry.id)),
                   !.aliases_map = set_aliases(@, entry.aliases, entry_text(entry.id))]

RECURSIVE load_entries(_, _)
load_entries(entries, acc) ==
  IF entries = <<>> THEN acc ELSE load_entries(Tail(entries), load_entry(Head(entries), acc))

\* the mutant: a list-shaped document carries no generator definitions
_load_from_list_palette_only(entries) ==
  load_entries(entries, [blocks |-> <<>>, aliases_map |-> [x \in {} |-> <<>>],
                         registry_payload |-> <<>>, source_format |-> "list"])

\* _load_from_list: NormalizedBlocks; registry_payload is an Optional
_load_from_list(entries) ==
  load_entries(entries, [blocks |-> <<>>, aliases_map |-> [x \in {} |-> <<>>],
                         registry_payload |-> <<_fallback_registry_payload>>,
                         source_format |-> "list"])

\* BlockRegistry.load_from_file after load_blocks: require_registry_payload, from_mapping
registry_of(normalized) ==
  IF normalized.registry_payload = <<>>
  THEN BlocksLoaderError(<<"blocks.json has no data for the code generator">>)
  ELSE from_mapping(normalized.registry_payload[1])

ListEntries ==
  { NotMapping,
    ListEntry(<<"LS_LED_ON">>, <<"logic">>, <<"OLD_LED">>),
    ListEntry(<<" ", "MY_BLOCK", " ">>, <<"custom">>, <<"OLD_LED", "MINE">>),
    ListEntry(AbsentText, <<"logic">>, <<>>),
    ListEntry(<<"X">>, AbsentText, <<>>),
    ListEntry(<<" ">>, <<"logic">>, <<>>) }

MaxEntries == 2

Catalogs ==
  { [kind |-> "catalog", entries |-> entries] :
      entries \in UNION { [1..n -> ListEntries] : n \in 0..MaxEntries } }

(***************************************************************************)
(* load_board_profiles.  The "upload" field of a board is absent, an       *)
(* object (with or without "speed"), or a value that is no object (null).  *)
(***************************************************************************)
DefaultUploadSpeed == 115200

BoardEntry(id, upload, has_speed, speed) ==
  [id |-> id, upload |-> upload, has_speed |-> has_speed, speed |-> speed]

\* the mutant: the default is not applied to an upload object without speed
upload_speed_of_no_default(board) ==
  CASE board.upload = "absent" -> Ok(DefaultUploadSpeed)
    [] board.upload = "null" -> Raise("AttributeError")
    [] OTHER -> Ok(board.speed)

\* board.get("upload", {}).get("speed", 115200)
upload_speed_of(board) ==
  CASE board.upload = "absent" -> Ok(DefaultUploadSpeed)
    [] board.upload = "null" -> Raise("AttributeError")
    [] OTHER -> IF board.has_speed THEN Ok(board.speed) ELSE Ok(DefaultUploadSpeed)

\* profiles[board["id"]] = BoardProfile(..., upload_speed=speed, ...)
set_profile(acc, board, speed) ==
  IF speed.exc # "none" THEN [acc EXCEPT !.exc = speed.exc]
  ELSE [acc EXCEPT !.profiles =
          (board.id :> [board_id |-> board.id, upload_speed |-> speed.n]) @@ @]

RECURSIVE load_boards(_, _)
load_boards(boards, acc) ==
  IF boards = <<>> \/ acc.exc # "none" THEN acc
  ELSE load_boards(Tail(boards), set_profile(acc, Head(boards), upload_speed_of(Head(boards))))

load_board_profiles(doc) ==
  load_boards(doc.boards, [exc |-> "none", profiles |-> [x \in {} |-> <<>>]])

\* the upload fields a board document is drawn from; speed is 0 where none is stated
Uploads ==
  { [upload |-> "absent", has_speed |-> FALSE, speed |-> 0],
    [upload |-> "null", has_speed |-> FALSE, speed |-> 0],
    [upload |-> "object", has_speed |-> FALSE, speed |-> 0] }
  \cup { [upload |-> "object", has_speed |-> TRUE, speed |-> n] : n \in {9600, 57600, 115200} }

BoardIds == <<"uno", "nano", "mega">>

MaxBoards == 2

BoardDocuments ==
  { [kind |-> "boards",
     boards |-> [i \in 1..n |-> BoardEntry(BoardIds[i], u[i].upload, u[i].has_speed, u[i].speed)]] :
      n \in 0..MaxBoards, u \in [1..MaxBoards -> Uploads] }

Documents == Payloads \cup Projects \cup Catalogs \cup BoardDocuments

InitLoad ==
  /\ program = ProgramNode("uno", <<>>)
  /\ gen = NewGenerator
  /\ builds = <<>>
  /\ sketches = <<>>
  /\ validation = <<>>
  /\ calls = <<>>
  /\ heap = <<>>
  /\ document \in Documents
  /\ loaded = <<>>
  /\ project = <<>>
  /\ scene = <<>>
  /\ last = <<>>

\* BlockRegistry.from_mapping(payload)
FromMapping ==
  /\ document.kind = "payload"
  /\ loaded = <<>>
  /\ loaded' = <<from_mapping(document)>>
  /\ UNCHANGED <<program, gen, builds, sketches, validation, calls, heap, document, project, scene, last>>

\* load_project_file(path, aliases=..., known_blocks=...)
LoadProjectFile ==
  /\ document.kind = "project"
  /\ loaded = <<>>
  /\ loaded' = <<load_project_file(document)>>
  /\ UNCHANGED <<program, gen, builds, sketches, validation, calls, heap, document, project, scene, last>>

\* BlockRegistry.load_from_file(path) on a list-shaped document
LoadBlocks ==
  /\ document.kind = "catalog"
  /\ loaded = <<>>
  /\ \E normalized \in {_load_from_list(document.entries)} :
       loaded' = <<[normalized |-> normalized, registry |-> registry_of(normalized)]>>
  /\ UNCHANGED <<program, gen, builds, sketches, validation, calls, heap, document, project, scene, last>>

\* load_board_profiles(path)
LoadBoardProfiles ==
  /\ document.kind = "boards"
  /\ loaded = <<>>
  /\ loaded' = <<load_board_profiles(document)>>
  /\ UNCHANGED <<program, gen, builds, sketches, validation, calls, heap, document, project, scene, last>>

NextLoad == FromMapping \/ LoadProjectFile \/ LoadBlocks \/ LoadBoardProfiles

SpecLoad == InitLoad /\ [][NextLoad]_vars

(***************************************************************************)
(* The canvas project model: ProjectModel with its blocks and connections, *)
(* and the calls made on it.  last is the call made last and, for          *)
(* remove_block, the uid it was given and the model it was made on.        *)
(***************************************************************************)
ConnectionModel(from_block_uid, from_port, to_block_uid, to_port) ==
  [from_block_uid |-> from_block_uid, from_port |-> from_port,
   to_block_uid |-> to_block_uid, to_port |-> to_port]

\* ProjectModel()
NewProject == [blocks |-> <<>>, connections |-> <<>>]

\* ProjectModel.create_block(type_id=..., uid=uid), the position and params left out
create_block(model, type_id, uid) ==
  [model EXCEPT !.blocks = Append(@, CanvasBlock(uid, type_id))]

\* the mutant: the connections that end in the block are kept
remove_block_keeps_incoming(model, uid) ==
  [blocks |-> SelectSeq(model.blocks, LAMBDA block : block.uid # uid),
   connections |-> SelectSeq(model.connections, LAMBDA conn : conn.from_block_uid # uid)]

\* ProjectModel.remove_block(uid)
remove_block(model, uid) ==
  [blocks |-> SelectSeq(model.blocks, LAMBDA block : block.uid # uid),
   connections |-> SelectSeq(model.connections,
                             LAMBDA conn : conn.from_block_uid # uid /\ conn.to_block_uid # uid)]

\* ProjectModel.add_connection(connection)
add_connection(model, connection) ==
  [model EXCEPT !.connections = Append(@, connection)]

\* ConnectionModel.matches(other)
matches(existing, other) ==
  /\ existing.from_block_uid = other.from_block_uid
  /\ existing.from_port = other.from_port
  /\ existing.to_block_uid = other.to_block_uid
  /\ existing.to_port = other.to_port

\* ProjectModel.remove_connection(connection)
remove_connection(model, connection) ==
  [model EXCEPT !.connections = SelectSeq(@, LAMBDA existing : ~matches(existing, connection))]

\* the uids, and the connections between them, the calls are made with
Uids == {"a", "b", "c"}

Wires == { ConnectionModel(f, "out", t, "in") : f \in Uids, t \in Uids }

MaxCanvasBlocks == 2

MaxConnections == 2

Call(op, uid, before) == [op |-> op, uid |-> uid, before |-> before]

InitProject ==
  /\ program = ProgramNode("uno", <<>>)
  /\ gen = NewGenerator
  /\ builds = <<>>
  /\ sketches = <<>>
  /\ validation = <<>>
  /\ calls = <<>>
  /\ heap = <<>>
  /\ document = <<>>
  /\ loaded = <<>>
  /\ project = NewProject
  /\ scene = <<>>
  /\ last = Call("ProjectModel", None, <<>>)

Unrelated == <<program, gen, builds, sketches, validation, calls, heap, document, loaded>>

\* model.create_block(type_id="io", x=0, y=0, uid=uid)
CreateBlock(uid) ==
  /\ Len(project.blocks) < MaxCanvasBlocks
  /\ project' = create_block(project, "io", uid)
  /\ last' = Call("create_block", None, <<>>)
  /\ UNCHANGED <<Unrelated, scene>>

\* model.create_block(type_id="io", x=0, y=0): uuid4 gives a uid not in use
CreateBlockFresh ==
  /\ Len(project.blocks) < MaxCanvasBlocks
  /\ \E uid \in Uids \ ({project.blocks[i].uid : i \in DOMAIN project.blocks}
                        \cup {project.connections[i].from_block_uid : i \in DOMAIN project.connections}
                        \cup {project.connections[i].to_block_uid : i \in DOMAIN project.connections}) :
       project' = create_block(project, "io", uid)
  /\ last' = Call("create_block", None, <<>>)
  /\ UNCHANGED <<Unrelated, scene>>

\* model.add_connection(connection)
AddConnection(connection) ==
  /\ Len(project.connections) < MaxConnections
  /\ project' = add_connection(project, connection)
  /\ last' = Call("add_connection", None, <<>>)
  /\ UNCHANGED <<Unrelated, scene>>

\* model.remove_connection(connection)
RemoveConnection(connection) ==
  /\ project' = remove_connection(project, connection)
  /\ last' = Call("remove_connection", None, <<>>)
  /\ UNCHANGED <<Unrelated, scene>>

\* model.remove_block(uid)
RemoveBlock(uid) ==
  /\ project' = remove_block(project, uid)
  /\ last' = Call("remove_block", uid, project)
  /\ UNCHANGED <<Unrelated, scene>>

NextProject ==
  \/ \E uid \in Uids : CreateBlock(uid)
  \/ CreateBlockFresh
  \/ \E connection \in Wires : AddConnection(connection)
  \/ \E connection \in Wires : RemoveConnection(connection)
  \/ \E uid \in Uids : RemoveBlock(uid)

SpecProject == InitProject /\ [][NextProject]_vars

(***************************************************************************)
(* The canvas scene: CanvasScene with its project model, its block items   *)
(* (uid -> type), its connection items (the dict is keyed by               *)
(* from:port->to:port, which names the connection), the port a connection  *)
(* preview was started from (the preview exists exactly when it is set),   *)
(* and the status message emitted last.  A port is named by its block      *)
(* item, direction and name; port._connections holds the registered        *)
(* connection items that start or end at the port.                         *)
(***************************************************************************)
PortSpec(name, direction, dtype) == [name |-> name, direction |-> direction, dtype |-> dtype]

\* the catalog given to set_block_catalog: inputs and outputs per type
BlockCatalog ==
  [ io |-> [inputs |-> <<PortSpec("in", "in", "flow")>>, outputs |-> <<PortSpec("out", "out", "flow")>>],
    join |-> [inputs |-> <<PortSpec("in1", "in", "flow"), PortSpec("in2", "in", "flow")>>,
              outputs |-> <<PortSpec("out", "out", "flow")>>],
    num |-> [inputs |-> <<PortSpec("in", "in", "int")>>, outputs |-> <<PortSpec("out", "out", "int")>>],
    src |-> [inputs |-> <<>>, outputs |-> <<>>] ]

\* _create_item_for_block: a block without declared outputs gets the port "out"
ports_out(type_id) ==
  IF BlockCatalog[type_id].outputs = <<>> THEN <<PortSpec("out", "out", None)>>
  ELSE BlockCatalog[type_id].outputs

PortItem(uid, spec) == [uid |-> uid, name |-> spec.name, direction |-> spec.direction, dtype |-> spec.dtype]

\* the ports of the block items on the scene
PortsOf(block_items) ==
  UNION { {PortItem(uid, spec) : spec \in Range(BlockCatalog[block_items[uid]].inputs)}
          \cup {PortItem(uid, spec) : spec \in Range(ports_out(block_items[uid]))} :
          uid \in DOMAIN block_items }

StatusStartFromOutput == "a connection starts at an output port"
StatusInputTaken == "the input is already connected"
StatusDrag == "drag the connection to the target input"
StatusCancelled == "connection cancelled"
StatusTargetNotInput == "the target port must be an input"
StatusInputUsed == "the input is already used"
StatusIncompatible == "incompatible port types"
StatusExists == "this connection already exists"
StatusCycle == "the connection creates a cycle"
StatusCreated == "connection created"
StatusBlockAdded == "block added"
StatusBlocksRemoved == "blocks removed"
StatusConnectionsRemoved == "connections removed"

\* CanvasScene()
NewScene ==
  [block_items |-> [uid \in {} |-> ""], connection_items |-> {}, start_port |-> <<>>,
   status |-> "", exc |-> "none"]

\* port.has_connections()
has_connections(port, connection_items) ==
  \E conn \in connection_items :
    \/ port.direction = "in" /\ conn.to_block_uid = port.uid /\ conn.to_port = port.name
    \/ port.direction = "out" /\ conn.from_block_uid = port.uid /\ conn.from_port = port.name

\* _are_types_compatible
_are_types_compatible(source, target) ==
  \/ source.dtype \in {None, "", "any", "*"}
  \/ target.dtype \in {None, "", "any", "*"}
  \/ source.dtype = target.dtype

\* adjacency.get(current, []): the targets of the connections leaving current,
\* and to_uid once more when current is from_uid
neighbours(connections, from_uid, to_uid, current) ==
  [i \in DOMAIN SelectSeq(connections, LAMBDA conn : conn.from_block_uid = current) |->
     SelectSeq(connections, LAMBDA conn : conn.from_block_uid = current)[i].to_block_uid]
  \o (IF current = from_uid THEN <<to_uid>> ELSE <<>>)

RECURSIVE enqueue(_, _, _)
\* for neighbour in ...: if neighbour not in visited: visited.add, queue.append
enqueue(found, visited, queue) ==
  IF found = <<>> THEN [visited |-> visited, queue |-> queue]
  ELSE IF Head(found) \in visited THEN enqueue(Tail(found), visited, queue)
  ELSE enqueue(Tail(found), visited \cup {Head(found)}, Append(queue, Head(found)))

RECURSIVE search(_, _, _, _)
\* the while loop of _creates_cycle over [visited, queue]
search(connections, from_uid, to_uid, q) ==
  IF q.queue = <<>> THEN FALSE
  ELSE IF Head(q.queue) = from_uid THEN TRUE
  ELSE search(connections, from_uid, to_uid,
              enqueue(neighbours(connections, from_uid, to_uid, Head(q.queue)),
                      q.visited, Tail(q.queue)))

\* the mutant: only a connection of a block to itself counts as a cycle
_creates_cycle_self_only(connections, from_uid, to_uid) == from_uid = to_uid

\* CanvasScene._creates_cycle
_creates_cycle(connections, from_uid, to_uid) ==
  IF from_uid = to_uid THEN TRUE
  ELSE search(connections, from_uid, to_uid, [visited |-> {}, queue |-> <<to_uid>>])

\* _cancel_connection_preview
_cancel_connection_preview(sc) == [sc EXCEPT !.start_port = <<>>]

\* _emit_status
_emit_status(sc, text) == [sc EXCEPT !.status = text]

Cancelled(sc, text) == _cancel_connection_preview(_emit_status(sc, text))

\* [scene, project] after a call
After(sc, model) == [scene |-> sc, project |-> model]

\* the model the scene is given by load_model: blocks with their own uids, no connections
SceneModels ==
  { <<>>,
    <<CanvasBlock("a", "io"), CanvasBlock("b", "io"), CanvasBlock("c", "io")>>,
    <<CanvasBlock("a", "io"), CanvasBlock("b", "join"), CanvasBlock("c", "io")>>,
    <<CanvasBlock("a", "src"), CanvasBlock("b", "num"), CanvasBlock("c", "io")>> }

\* load_model(model) for a model without connections
load_model(sc, blocks) ==
  After([sc EXCEPT !.block_items = [uid \in {blocks[i].uid : i \in DOMAIN blocks} |->
                                      blocks[CHOOSE i \in DOMAIN blocks : blocks[i].uid = uid].type_id]
                                   @@ [uid \in {} |-> ""],
                   !.connection_items = {},
                   !.start_port = <<>>,
                   !.exc = "none"],
        [blocks |-> blocks, connections |-> <<>>])

\* add_block_at after self._project_model.add_block(block) returned or raised
block_added(sc, model, block, added) ==
  IF added.exc # "none" THEN After([sc EXCEPT !.exc = added.exc], model)
  ELSE After(_emit_status([sc EXCEPT !.block_items = (block.uid :> block.type_id) @@ @,
                                     !.exc = "none"], StatusBlockAdded),
             [model EXCEPT !.blocks = added.blocks])

\* add_block_at(type_id, pos, uid=uid)
add_block_at(sc, model, type_id, uid) ==
  block_added(sc, model, CanvasBlock(uid, type_id),
              add_block([blocks |-> model.blocks, exc |-> "none"], CanvasBlock(uid, type_id)))

\* begin_connection(port)
begin_connection(sc, port) ==
  IF port.direction # "out"
  THEN IF port.direction = "in" /\ has_connections(port, sc.connection_items)
       THEN _emit_status(sc, StatusInputTaken)
       ELSE _emit_status(sc, StatusStartFromOutput)
  ELSE _emit_status([_cancel_connection_preview(sc) EXCEPT !.start_port = <<port>>], StatusDrag)

\* the end of complete_connection: the connection is added and registered
connect(sc, model, connection) ==
  After(_emit_status([_cancel_connection_preview(sc) EXCEPT
                        !.connection_items = @ \cup {connection}], StatusCreated),
        add_connection(model, connection))

\* complete_connection(port) with a preview started at start_port
complete_from(sc, model, start_port, port) ==
  IF port = start_port THEN After(Cancelled(sc, StatusCancelled), model)
  ELSE IF port.direction # "in" THEN After(_emit_status(sc, StatusTargetNotInput), model)
  ELSE IF start_port.direction # "out" THEN After(Cancelled(sc, StatusStartFromOutput), model)
  ELSE IF has_connections(port, sc.connection_items) THEN After(Cancelled(sc, StatusInputUsed), model)
  ELSE IF ~_are_types_compatible(start_port, port) THEN After(Cancelled(sc, StatusIncompatible), model)
  ELSE IF ConnectionModel(start_port.uid, start_port.name, port.uid, port.name) \in sc.connection_items
  THEN After(Cancelled(sc, StatusExists), model)
  ELSE IF _creates_cycle(model.connections, start_port.uid, port.uid)
  THEN After(Cancelled(sc, StatusCycle), model)
  ELSE connect(sc, model, ConnectionModel(start_port.uid, start_port.name, port.uid, port.name))

\* complete_connection(port)
complete_connection(sc, model, port) ==
  IF sc.start_port = <<>> THEN After(sc, model)
  ELSE complete_from(sc, model, sc.start_port[1], port)

\* _remove_connection_item(item)
_remove_connection_item(st, connection) ==
  After([st.scene EXCEPT !.connection_items = @ \ {connection}],
        remove_connection(st.project, connection))

RECURSIVE remove_connection_items(_, _)
remove_connection_items(st, connections) ==
  IF connections = {} THEN st
  ELSE remove_connection_items(_remove_connection_item(st, CHOOSE conn \in connections : TRUE),
                               connections \ {CHOOSE conn \in connections : TRUE})

\* the BlockItem branch of remove_selected, after _remove_connections_for_block(uid)
remove_block_item(st, uid) ==
  After([st.scene EXCEPT !.block_items = [u \in DOMAIN @ \ {uid} |-> @[u]]],
        remove_block(st.project, uid))

\* _remove_connections_for_block(uid), then the block itself
remove_block_selected(st, uid) ==
  remove_block_item(
    remove_connection_items(st, {conn \in st.scene.connection_items :
                                   conn.from_block_uid = uid \/ conn.to_block_uid = uid}),
    uid)

RECURSIVE remove_blocks_selected(_, _)
remove_blocks_selected(st, uids) ==
  IF uids = {} THEN st
  ELSE remove_blocks_selected(remove_block_selected(st, CHOOSE uid \in uids : TRUE),
                              uids \ {CHOOSE uid \in uids : TRUE})

\* the status of remove_selected: blocks first, then connections, each when
\* some were removed (the counts are left out of the text)
removed_status(st, sc_before, selection) ==
  IF selection.connections # {}
     \/ \E uid \in selection.blocks : \E conn \in sc_before.connection_items :
          conn.from_block_uid = uid \/ conn.to_block_uid = uid
  THEN After(_emit_status(st.scene, StatusConnectionsRemoved), st.project)
  ELSE IF selection.blocks # {} THEN After(_emit_status(st.scene, StatusBlocksRemoved), st.project)
  ELSE st

\* remove_selected() with the given items selected; the end state does not
\* depend on the order selectedItems() lists them in
remove_selected(sc, model, selection) ==
  removed_status(
    remove_connection_items(remove_blocks_selected(After([sc EXCEPT !.exc = "none"], model),
                                                   selection.blocks),
                            selection.connections),
    sc, selection)

\* what can be selected: at most one block item and one connection item
Selections(sc) ==
  { [blocks |-> b, connections |-> c] :
      b \in {{}} \cup {{uid} : uid \in DOMAIN sc.block_items},
      c \in {{}} \cup {{conn} : conn \in sc.connection_items} }

InitScene ==
  /\ program = ProgramNode("uno", <<>>)
  /\ gen = NewGenerator
  /\ builds = <<>>
  /\ sketches = <<>>
  /\ validation = <<>>
  /\ calls = <<>>
  /\ heap = <<>>
  /\ document = <<>>
  /\ loaded = <<>>
  /\ project = NewProject
  /\ scene = NewScene
  /\ last = Call("CanvasScene", None, <<>>)

\* scene.load_model(model)
LoadModel(blocks) ==
  /\ \E r \in {load_model(scene, blocks)} : scene' = r.scene /\ project' = r.project
  /\ last' = Call("load_model", None, <<>>)
  /\ UNCHANGED Unrelated

\* scene.add_block_at(type_id, pos, uid=uid)
AddBlockAt(type_id, uid) ==
  /\ uid \notin DOMAIN scene.block_items
  /\ \E r \in {add_block_at(scene, project, type_id, uid)} : scene' = r.scene /\ project' = r.project
  /\ last' = Call("add_block_at", uid, <<>>)
  /\ UNCHANGED Unrelated

\* scene.begin_connection(port)
BeginConnection(port) ==
  /\ scene' = [begin_connection(scene, port) EXCEPT !.exc = "none"]
  /\ last' = Call("begin_connection", port.uid, <<>>)
  /\ UNCHANGED <<Unrelated, project>>

\* scene.complete_connection(port); last keeps the port the preview started at
CompleteConnection(port) ==
  /\ \E r \in {complete_connection([scene EXCEPT !.exc = "none"], project, port)} :
       scene' = r.scene /\ project' = r.project
  /\ last' = Call("complete_connection", port.uid, scene.start_port)
  /\ UNCHANGED Unrelated

\* scene.remove_selected()
RemoveSelected(selection) ==
  /\ \E r \in {remove_selected(scene, project, selection)} : scene' = r.scene /\ project' = r.project
  /\ last' = Call("remove_selected", None, <<>>)
  /\ UNCHANGED Unrelated

NextScene ==
  \/ \E blocks \in SceneModels : LoadModel(blocks)
  \/ \E type_id \in DOMAIN BlockCatalog : \E uid \in Uids : AddBlockAt(type_id, uid)
  \/ \E port \in PortsOf(scene.block_items) : BeginConnection(port)
  \/ \E port \in PortsOf(scene.block_items) : CompleteConnection(port)
  \/ \E selection \in Selections(scene) : RemoveSelected(selection)

SpecScene == InitScene /\ [][NextScene]_vars

(***************************************************************************)
(* Vocabulary of the properties.                                           *)
(***************************************************************************)
RECURSIVE subtree(_)
\* a block and everything below it, whatever the container names
subtree(block) ==
  {block} \cup UNION { UNION { subtree(block.children[c][i]) : i \in DOMAIN block.children[c] } :
                       c \in DOMAIN block.children }

\* ProgramNode.iter_blocks, as a set
iter_blocks(prog) == IF prog.root = <<>> THEN {} ELSE subtree(prog.root[1])

BlockById(id) == CHOOSE b \in iter_blocks(program) : b.instance_id = id

IsUnknown(block) == block.definition_id \notin DOMAIN Registry

Descendants(block) == {d.instance_id : d \in subtree(block)} \ {block.instance_id}

\* the results of all build calls, and the bundles among them
Results == Range(builds) \cup Range(sketches)

Bundles == {r \in Results : r.exc = "none"}

\* the lists validate returned
Returns == {v \in Range(validation) : v.exc = "none"}

ErrorsAbout(v, id) == {k \in DOMAIN v.errors : v.errors[k].block_id = id}

PhysicalLines(code) == Split(code, NL)

(***************************************************************************)
(* C1: for a program without a root, validate returns exactly one          *)
(* diagnostic, the missing-entry-block one with no block id, and walks no  *)
(* block; build and build_sketch raise CodeGenerationError and return no   *)
(* bundle.                                                                 *)
(***************************************************************************)
C1_NoRoot ==
  program.root = <<>> =>
    /\ \A v \in Range(validation) :
         /\ v.exc = "none"
         /\ v.errors = <<ValidationError(MsgNoRoot, None)>>
         /\ v.visited = <<>>
    /\ \A r \in Results :
         /\ r.exc = "CodeGenerationError"
         /\ r.visited = <<>>
         /\ r.code = <<>>

C1_Witness ==
  /\ program.root = <<>>
  /\ validation # <<>>
  /\ builds # <<>>
  /\ sketches # <<>>

(***************************************************************************)
(* C2: a second build with the same unmodified AST, through build_sketch   *)
(* and through build on the same generator object alike, returns the code  *)
(* and the mapping of the first.                                           *)
(***************************************************************************)
C2_BuildIdempotent ==
  /\ (Len(builds) >= 2 /\ builds[1].exc = "none") =>
       /\ builds[2].exc = "none"
       /\ builds[2].code = builds[1].code
       /\ builds[2].mapping = builds[1].mapping
  /\ (Len(sketches) >= 2 /\ sketches[1].exc = "none") =>
       /\ sketches[2].exc = "none"
       /\ sketches[2].code = sketches[1].code
       /\ sketches[2].mapping = sketches[1].mapping

(***************************************************************************)
(* C3: in a returned bundle, every line number the mapping lists for a     *)
(* block is the number of a physical line of the code that was emitted on  *)
(* behalf of that block.                                                   *)
(***************************************************************************)
\* the physical lines of the section-buffer entries tagged with a block
OwnLines(st, id) ==
  UNION { UNION { Range(Split(st.section_lines[sec][i].text, NL)) :
                  i \in {j \in DOMAIN st.section_lines[sec] : st.section_lines[sec][j].block_id = id} } :
          sec \in Section }

C3_MappingFaithful ==
  (sketches # <<>> /\ sketches[1].exc = "none") =>
    LET r == sketches[1]
        lines == PhysicalLines(r.code)
        st == build_sketch(program).gen
    IN \A id \in DOMAIN r.mapping : \A k \in DOMAIN r.mapping[id] :
         /\ r.mapping[id][k] \in DOMAIN lines
         /\ lines[r.mapping[id][k]] \in OwnLines(st, id)

(***************************************************************************)
(* C4: for every instance the traversal reaches whose definition id is not *)
(* in the registry, validate appends exactly one diagnostic, the unknown   *)
(* block type one carrying the instance id, visits nothing below it and    *)
(* goes on with the later siblings; build raises CodeGenerationError at    *)
(* the first such instance it reaches.                                     *)
(***************************************************************************)
C4_UnknownBlock ==
  /\ \A v \in Returns : \A j \in DOMAIN v.visited :
       LET block == BlockById(v.visited[j])
       IN IF IsUnknown(block)
          THEN /\ Cardinality(ErrorsAbout(v, block.instance_id)) = 1
               /\ \E k \in DOMAIN v.errors :
                    v.errors[k] = ValidationError(MsgUnknownBlock, block.instance_id)
               /\ \A d \in Descendants(block) :
                    d \notin Range(v.visited) /\ ErrorsAbout(v, d) = {}
          ELSE \A child \in Range(children_of(block, Registry[block.definition_id].containers)) :
                 child.instance_id \in Range(v.visited)
  /\ \A r \in Results : \A j \in DOMAIN r.visited :
       IsUnknown(BlockById(r.visited[j])) =>
         /\ r.exc = "CodeGenerationError"
         /\ r.raised_at = r.visited[j]
         /\ j = Len(r.visited)

C4_Witness ==
  /\ \E v \in Returns : \E j \in DOMAIN v.visited :
       /\ IsUnknown(BlockById(v.visited[j]))
       /\ Descendants(BlockById(v.visited[j])) # {}
       /\ j < Len(v.visited)
  /\ \E r \in Results : r.raised_at # None /\ IsUnknown(BlockById(r.raised_at))

(***************************************************************************)
(* Regions of the assembled text.                                          *)
(***************************************************************************)
FirstIndex(lines, from, line) ==
  CHOOSE i \in from..Len(lines) : lines[i] = line /\ \A j \in from..(i - 1) : lines[j] # line

\* the physical lines between an opening line and the next unindented "}"
Region(code, opening) ==
  LET lines == PhysicalLines(code)
      open == FirstIndex(lines, 1, opening)
      close == FirstIndex(lines, open + 1, <<"}">>)
  IN SubSeq(lines, open + 1, close - 1)

SetupRegion(code) == Region(code, <<"void setup() {">>)

LoopRegion(code) == Region(code, <<"void loop() {">>)

RECURSIVE IsSubsequence(_, _)
IsSubsequence(a, b) ==
  IF a = <<>> THEN TRUE
  ELSE IF b = <<>> THEN FALSE
  ELSE IF Head(a) = Head(b) THEN IsSubsequence(Tail(a), Tail(b))
  ELSE IsSubsequence(a, Tail(b))

\* a occurs in b as a run of consecutive lines
Contains(b, a) == \E i \in 0..(Len(b) - Len(a)) : SubSeq(b, i + 1, i + Len(a)) = a

RECURSIVE Concat(_)
Concat(seqs) ==
  IF seqs = <<>> THEN <<>>
  ELSE IF Len(seqs) = 1 THEN seqs[1]
  ELSE LET half == Len(seqs) \div 2
       IN Concat(SubSeq(seqs, 1, half)) \o Concat(SubSeq(seqs, half + 1, Len(seqs)))

Definition(block) == Registry[block.definition_id]

HasStart == program.root # <<>> /\ program.root[1].definition_id = "EV_START"

LoopChildren == get(program.root[1].children, "loop", <<>>)

NonBlank(lines) == SelectSeq(lines, LAMBDA line : line # <<>>)

\* the non-blank lines of a statement placed directly in a container of the
\* start block (a blank line is never put into a section buffer)
StatementLines(block) ==
  NonBlank(splitlines(_render_template(Definition(block), block,
                                       _build_context(block, Definition(block)), 1, NewGenerator).text))

SetupSnippetLines(block, i) ==
  splitlines(_format(Definition(block).setup_snippets[i],
                     _build_context(block, Definition(block)), 1))

ScenarioA == ProgramNode("uno", <<Start(<<>>, <<Led(IntV(13)), Delay(IntV(500))>>)>>)

SetupSnippetsInSetup(r) ==
  \A k \in DOMAIN LoopChildren : \A i \in DOMAIN Definition(LoopChildren[k]).setup_snippets :
    Contains(SetupRegion(r.code), SetupSnippetLines(LoopChildren[k], i))

MappingForEach(r) ==
  \A k \in DOMAIN LoopChildren :
    /\ LoopChildren[k].instance_id \in DOMAIN r.mapping
    /\ r.mapping[LoopChildren[k].instance_id] # <<>>

(***************************************************************************)
(* C5, as claimed: the statements s1..sn of the start block's loop         *)
(* container have their template lines inside loop(), in the order         *)
(* s1..sn, their setup snippets inside setup(), and a non-empty mapping.   *)
(***************************************************************************)
C5_SiblingOrder_Original ==
  HasStart =>
    \A r \in Bundles :
      /\ IsSubsequence(Concat([k \in DOMAIN LoopChildren |-> StatementLines(LoopChildren[k])]),
                       LoopRegion(r.code))
      /\ SetupSnippetsInSetup(r)
      /\ MappingForEach(r)

(***************************************************************************)
(* C5, amended: the same for the statements whose definition has the fixed *)
(* section loop or no fixed section; a statement whose definition fixes    *)
(* another section has its template lines in that section.  LED-on(13)     *)
(* then delay(500) gives pinMode(13, OUTPUT); in setup() and               *)
(* digitalWrite(13, HIGH); before delay(500); in loop().                   *)
(***************************************************************************)
InLoopSection(block) == Definition(block).section \in {None, "loop"}

C5_SiblingOrder ==
  HasStart =>
    \A r \in Bundles :
      /\ IsSubsequence(Concat([k \in DOMAIN LoopChildren |->
                                 IF InLoopSection(LoopChildren[k])
                                 THEN StatementLines(LoopChildren[k]) ELSE <<>>]),
                       LoopRegion(r.code))
      /\ \A k \in DOMAIN LoopChildren :
           (~InLoopSection(LoopChildren[k]) /\ Definition(LoopChildren[k]).section = "setup") =>
             Contains(SetupRegion(r.code), StatementLines(LoopChildren[k]))
      /\ SetupSnippetsInSetup(r)
      /\ MappingForEach(r)
      /\ (program = ScenarioA /\ r \in Range(sketches)) =>
           /\ SetupRegion(r.code) = << <<INDENT, "pinMode(", "13", ", OUTPUT);">> >>
           /\ LoopRegion(r.code) = << <<INDENT, "digitalWrite(", "13", ", HIGH);">>,
                                      <<INDENT, "delay(", "500", ");">> >>

C5_Witness ==
  /\ program = ScenarioA
  /\ \E r \in Range(sketches) : r.exc = "none" /\ "l1" \in DOMAIN r.mapping

(***************************************************************************)
(* C6: a block with a placeholder container placed in the loop is rendered *)
(* as its opening line, immediately followed by each child's line one      *)
(* indent unit deeper than the opening line, immediately followed by the   *)
(* closing line at the parent's indentation.                               *)
(***************************************************************************)
IsLeafStatement(block) ==
  /\ ~IsUnknown(block)
  /\ Definition(block).template # <<>>
  /\ Definition(block).containers = <<>>

\* a loop child with one placeholder container holding leaf statements
IsNesting(block) ==
  /\ ~IsUnknown(block)
  /\ Len(Definition(block).containers) = 1
  /\ Definition(block).containers[1].placeholder # None
  /\ get(block.children, Definition(block).containers[1].name, <<>>) # <<>>
  /\ \A child \in Range(get(block.children, Definition(block).containers[1].name, <<>>)) :
       IsLeafStatement(child)

\* the parent's lines at indent 1 with the children's lines at indent 2 in
\* the place of the placeholder
NestedLines(block) ==
  LET container == Definition(block).containers[1]
      children == get(block.children, container.name, <<>>)
      marker == <<"<children>">>
      parent == splitlines(_format(Replace(Definition(block).template, Tok(container.placeholder), marker),
                                   _build_context(block, Definition(block)), 1))
      at == FirstIndex(parent, 1, <<INDENT>> \o marker)
      inner == Concat([i \in DOMAIN children |->
                 splitlines(_format(Definition(children[i]).template,
                                    _build_context(children[i], Definition(children[i])), 2))])
  IN SubSeq(parent, 1, at - 1) \o inner \o SubSeq(parent, at + 1, Len(parent))

C6_NestedRendering ==
  HasStart =>
    \A r \in Range(sketches) : r.exc = "none" =>
      \A k \in DOMAIN LoopChildren :
        IsNesting(LoopChildren[k]) =>
          Contains(LoopRegion(r.code), NestedLines(LoopChildren[k]))

(***************************************************************************)
(* C7: in the code of a build on a new generator, the rendered template    *)
(* and each rendered setup, globals or functions snippet of a visited      *)
(* block occur in their section once per block instance: the section holds *)
(* as many lines with that text as there are instances rendering it.       *)
(***************************************************************************)
FirstLine(text) == lstrip(Head(splitlines(text)))

\* what a visited block with a fixed section puts into the sections:
\* <<section, first line of the rendered text>> per snippet and template
Emissions(block) ==
  LET definition == Definition(block)
      context == _build_context(block, definition)
  IN  { <<block.instance_id, "template", 1, definition.section,
           FirstLine(replace_all(definition.template, context))>> :
         x \in {y \in {1} : definition.template # <<>> /\ definition.section # None} }
      \cup { <<block.instance_id, "setup", i, "setup",
               FirstLine(_format(definition.setup_snippets[i], context, 1))>> :
             i \in DOMAIN definition.setup_snippets }
      \cup { <<block.instance_id, "globals", i, "globals",
               FirstLine(_format(definition.globals_snippets[i], context, 0))>> :
             i \in DOMAIN definition.globals_snippets }
      \cup { <<block.instance_id, "functions", i, "functions",
               FirstLine(str_format(definition.functions_snippets[i], context).text)>> :
             i \in DOMAIN definition.functions_snippets }

SectionLines(r, section) ==
  Concat([i \in DOMAIN r.sections[section] |-> splitlines(r.sections[section][i])])

Occurrences(r, section, line) ==
  Cardinality({i \in DOMAIN SectionLines(r, section) : lstrip(SectionLines(r, section)[i]) = line})

C7_TextOncePerInstance ==
  \A r \in Range(sketches) : r.exc = "none" =>
    LET all == UNION { Emissions(BlockById(id)) : id \in Range(r.visited) }
    IN \A e \in all :
         Occurrences(r, e[4], e[5]) = Cardinality({f \in all : f[4] = e[4] /\ f[5] = e[5]})

(***************************************************************************)
(* C8: for every visited block, each digital_pin parameter whose effective *)
(* value resolves to an integer pin outside the board's digital pin list   *)
(* gives exactly one diagnostic carrying the block's instance id, and one  *)
(* whose pin is in the list gives none.                                    *)
(***************************************************************************)
EffectiveValue(block, param) == get(block.values, param.name, param.default)

\* the digital_pin parameters of a block whose value resolves to pin n
PinParameters(block, n) ==
  {i \in DOMAIN Definition(block).parameters :
     LET param == Definition(block).parameters[i]
     IN /\ param.type = "digital_pin"
        /\ EffectiveValue(block, param) # NoneV
        /\ pin_of(EffectiveValue(block, param)) = Ok(n)}

ResolvedPins(block) ==
  {n \in IntLiterals : PinParameters(block, n) # {}}

C8_DigitalPin ==
  \A v \in Returns : \A id \in Range(v.visited) :
    ~IsUnknown(BlockById(id)) =>
      \A n \in ResolvedPins(BlockById(id)) :
        Cardinality({k \in ErrorsAbout(v, id) : v.errors[k].message = MsgPinUnavailable(n)})
          = IF n \in Range(Board.digital) THEN 0 ELSE Cardinality(PinParameters(BlockById(id), n))

C8_Witness ==
  \E v \in Returns : \E id \in Range(v.visited) :
    /\ ~IsUnknown(BlockById(id))
    /\ \E n \in ResolvedPins(BlockById(id)) : n \notin Range(Board.digital)
    /\ \E n \in ResolvedPins(BlockById(id)) : n \in Range(Board.digital)

(***************************************************************************)
(* C9, as claimed: whenever the root's loop container has no children,     *)
(* validate returns the loop-is-empty diagnostic, whatever the other       *)
(* containers hold.                                                        *)
(***************************************************************************)
HasLoopEmptyDiagnostic(v) ==
  \E k \in DOMAIN v.errors : v.errors[k] = ValidationError(MsgLoopEmpty, None)

C9_EmptyLoop_Original ==
  (HasStart /\ LoopChildren = <<>>) =>
    \A v \in Returns : HasLoopEmptyDiagnostic(v)

(***************************************************************************)
(* C9, amended: when the root's loop container has no children, validate   *)
(* returns the loop-is-empty diagnostic unless a visited block (in another *)
(* container) has a definition whose fixed section is loop; then it does   *)
(* not.                                                                    *)
(***************************************************************************)
C9_EmptyLoop ==
  (HasStart /\ LoopChildren = <<>>) =>
    \A v \in Returns :
      HasLoopEmptyDiagnostic(v)
        <=> ~ \E id \in Range(v.visited) :
                ~IsUnknown(BlockById(id)) /\ Definition(BlockById(id)).section = "loop"

C9_Witness ==
  /\ HasStart
  /\ LoopChildren = <<>>
  /\ get(program.root[1].children, "setup", <<>>) # <<>>
  /\ \E v \in Returns : HasLoopEmptyDiagnostic(v)

(***************************************************************************)
(* C10: validate never raises; it terminates by returning a list.          *)
(***************************************************************************)
C10_ValidateNeverRaises ==
  \A v \in Range(validation) : v.exc = "none"

(***************************************************************************)
(* The target section _process_block is called with for each instance it   *)
(* can reach: None for the root, the container's section for the children  *)
(* of a container without a placeholder or of a block without a template,  *)
(* the parent definition's fixed section for the children of a placeholder *)
(* container of a template-bearing block.                                  *)
(***************************************************************************)
PassedSection(definition, container) ==
  IF definition.template # <<>> /\ container.placeholder # None
  THEN definition.section ELSE container.section

RECURSIVE Targets(_, _)
Targets(block, target) ==
  {[id |-> block.instance_id, target |-> target]}
  \cup (IF IsUnknown(block) THEN {}
        ELSE UNION { UNION { Targets(child, PassedSection(Definition(block), Definition(block).containers[c])) :
                             child \in Range(get(block.children, Definition(block).containers[c].name, <<>>)) } :
                     c \in DOMAIN Definition(block).containers })

TargetOf(id) == (CHOOSE t \in Targets(program.root[1], None) : t.id = id).target

\* a template-bearing block with neither a fixed nor a passed section
ResolvesToNoSection(id) ==
  /\ ~IsUnknown(BlockById(id))
  /\ Definition(BlockById(id)).template # <<>>
  /\ Definition(BlockById(id)).section = None
  /\ TargetOf(id) = None

(***************************************************************************)
(* C11: every build call either returns a bundle or raises                 *)
(* CodeGenerationError, and it raises exactly when the program has no      *)
(* root, or a visited block has an unknown definition, or a visited        *)
(* template-bearing block resolves to no section.                          *)
(***************************************************************************)
C11_BuildErrors ==
  \A r \in Results :
    /\ r.exc \in {"none", "CodeGenerationError"}
    /\ r.exc = "CodeGenerationError" <=>
         \/ program.root = <<>>
         \/ \E j \in DOMAIN r.visited :
              IsUnknown(BlockById(r.visited[j])) \/ ResolvesToNoSection(r.visited[j])

ResultAlone(call) ==
  IF call.kind = "build_sketch" THEN Bundle(build_sketch(call.prog)) ELSE validate(call.prog)

ResultsAsAlone ==
  \A i \in DOMAIN calls : calls[i].pc = "done" => calls[i].result = <<ResultAlone(calls[i])>>

OwnAccumulatorsOnly ==
  \A i \in DOMAIN calls : calls'[i] = calls[i] => heap'[i] = heap[i]

C13_Independent == []ResultsAsAlone /\ [][OwnAccumulatorsOnly]_vars

C13_Witness ==
  /\ Len(calls) = 2
  /\ calls[1].pc = "done" /\ calls[2].pc = "done"
  /\ calls[1].kind = calls[2].kind
  /\ calls[1].prog # calls[2].prog
  /\ calls[1].result # calls[2].result
  /\ \A i \in DOMAIN calls : calls[i].result[1].exc = "none"

(***************************************************************************)
(* C14: from_mapping on a payload with a malformed block entry (id, name,  *)
(* category or kind missing; a container without name or with a missing or *)
(* unknown section; a parameter without name or type; an unknown value in  *)
(* the block's own section field) raises BlocksLoaderError, returns no     *)
(* registry, and the message names the offending block.                    *)
(***************************************************************************)
BadContainer(item) == item.is_mapping /\ (item.name = Absent \/ item.section \notin Section)

BadParameter(item) == item.is_mapping /\ (item.name = Absent \/ item.type = Absent)

Malformed(entry) ==
  /\ entry.is_mapping
  /\ \/ Absent \in {entry.id, entry.name, entry.category, entry.kind}
     \/ \E i \in DOMAIN entry.containers : BadContainer(entry.containers[i])
     \/ \E i \in DOMAIN entry.parameters : BadParameter(entry.parameters[i])
     \/ entry.section \notin Section \cup {Absent, NonString, ""}

\* a message names a block when the block's id is part of it
Names(message, entry) == entry.id # Absent /\ entry.id \in Range(message)

C14_MalformedRejected ==
  (document # <<>> /\ document.kind = "payload" /\ loaded # <<>>) =>
    IF \E i \in DOMAIN document.blocks : Malformed(document.blocks[i])
    THEN /\ loaded[1].exc = "BlocksLoaderError"
         /\ loaded[1].definitions = NoDefinitions
         /\ \E i \in DOMAIN document.blocks :
              Malformed(document.blocks[i]) /\ Names(loaded[1].message, document.blocks[i])
    ELSE loaded[1].exc = "none"

(***************************************************************************)
(* C15: load_project_file loads every node with a non-empty type, in file  *)
(* order, with the type the alias map gives it when the type is a key of   *)
(* the map and with its own type otherwise.                                *)
(***************************************************************************)
TypedNodes(nodes) ==
  SelectSeq(nodes, LAMBDA node : node.is_mapping /\ node.type \notin {Absent, ""})

ExpectedType(type, alias_map) == IF type \in DOMAIN alias_map THEN alias_map[type] ELSE type

C15_AliasResolution ==
  (document # <<>> /\ document.kind = "project" /\ loaded # <<>>) =>
    /\ loaded[1].exc = "none"
    /\ Len(loaded[1].blocks) = Len(TypedNodes(document.nodes))
    /\ \A i \in DOMAIN loaded[1].blocks :
         loaded[1].blocks[i].type_id =
           ExpectedType(TypedNodes(document.nodes)[i].type, document.aliases)

(***************************************************************************)
(* C16: for every list-shaped catalog document, malformed entries skipped, *)
(* loading succeeds and the registry built from the registry payload holds *)
(* exactly the built-in definitions EV_START, LS_LED_ON, TM_DELAY and      *)
(* CTL_IF, and build returns a bundle for every program with a root whose  *)
(* blocks are all of these definitions.                                    *)
(***************************************************************************)
BuiltIns == {"EV_START", "LS_LED_ON", "TM_DELAY", "CTL_IF"}

BuiltInPrograms ==
  {prog \in Programs :
     prog.root # <<>> /\ \A b \in iter_blocks(prog) : b.definition_id \in BuiltIns}

BuiltInProgramsBuild == \A prog \in BuiltInPrograms : build_sketch(prog).exc = "none"

WellFormedEntry(entry) ==
  entry.is_mapping /\ entry_text(entry.id) # <<>> /\ entry_text(entry.category) # <<>>

C16_ListCatalogFallback ==
  (document # <<>> /\ document.kind = "catalog" /\ loaded # <<>>) =>
    /\ loaded[1].registry.exc = "none"
    /\ DOMAIN loaded[1].registry.definitions = BuiltIns
    /\ \A id \in BuiltIns : loaded[1].registry.definitions[id] = Registry[id]
    /\ Len(loaded[1].normalized.blocks) = Len(SelectSeq(document.entries, WellFormedEntry))
    /\ BuiltInProgramsBuild

C16_Witness ==
  /\ document # <<>> /\ document.kind = "catalog" /\ loaded # <<>>
  /\ \E i \in DOMAIN document.entries : ~WellFormedEntry(document.entries[i])
  /\ \E i \in DOMAIN document.entries : WellFormedEntry(document.entries[i])
  /\ Cardinality(BuiltInPrograms) > 20

(***************************************************************************)
(* C17: load_board_profiles gives a board without an upload.speed field,   *)
(* or without an upload object, the upload speed 115200, and a board that  *)
(* states upload.speed that speed.  As stated, for every document; as      *)
(* amended, for documents in which every upload field that is present is   *)
(* an object.                                                              *)
(***************************************************************************)
StatedSpeed(board) == board.upload = "object" /\ board.has_speed

SpeedsAsStated ==
  /\ loaded[1].exc = "none"
  /\ DOMAIN loaded[1].profiles = {document.boards[i].id : i \in DOMAIN document.boards}
  /\ \A i \in DOMAIN document.boards :
       loaded[1].profiles[document.boards[i].id].upload_speed =
         IF StatedSpeed(document.boards[i]) THEN document.boards[i].speed ELSE 115200

BoardsLoaded == document # <<>> /\ document.kind = "boards" /\ loaded # <<>>

GeneratorFresh ==
  /\ \A sec \in Section : gen.section_lines[sec] = <<>>
  /\ gen._include_cache = <<>>
  /\ DOMAIN gen._line_mapping = {}

C18_FreshPerBuild ==
  /\ builds # <<>> => GeneratorFresh
  /\ \A i, j \in DOMAIN builds :
       builds[i].exc = "none" /\ builds[j].exc = "none" => builds[i].code = builds[j].code

(***************************************************************************)
(* C19: substitution is single-pass and literal.  OnePass replaces each    *)
(* token of the template by the string form of its value and leaves the    *)
(* text it puts in alone.  In every bundle, a template-bearing block       *)
(* without containers placed in the loop container of the root has the     *)
(* one-pass rendering of its template among the loop lines, and so has     *)
(* each such block nested in the placeholder container of a block of the   *)
(* loop container, once as its own line and once inside its parent's text. *)
(***************************************************************************)
ValueFor(atom, context) ==
  IF \E i \in DOMAIN context : Tok(context[i].key) = atom
  THEN str(context[CHOOSE i \in DOMAIN context : Tok(context[i].key) = atom].value)
  ELSE <<atom>>

RECURSIVE OnePass(_, _)
OnePass(text, context) ==
  IF text = <<>> THEN <<>>
  ELSE ValueFor(Head(text), context) \o OnePass(Tail(text), context)

PlainStatement(block) ==
  /\ ~IsUnknown(block)
  /\ Definition(block).template # <<>>
  /\ Definition(block).containers = <<>>

Verbatim(block) == OnePass(Definition(block).template, _build_context(block, Definition(block)))

LoopBlocks == IF program.root = <<>> THEN <<>> ELSE get(program.root[1].children, "loop", <<>>)

PlaceholderChildren(block) ==
  IF IsUnknown(block) \/ Definition(block).template = <<>> THEN {}
  ELSE UNION { Range(get(block.children, Definition(block).containers[c].name, <<>>)) :
               c \in {c \in DOMAIN Definition(block).containers :
                        Definition(block).containers[c].placeholder # None} }

C19_SinglePass ==
  \A r \in Range(sketches) :
    r.exc = "none" =>
      \A i \in DOMAIN LoopBlocks :
        /\ PlainStatement(LoopBlocks[i]) =>
             Occurrences(r, "loop", Verbatim(LoopBlocks[i])) >= 1
        /\ \A child \in PlaceholderChildren(LoopBlocks[i]) :
             PlainStatement(child) /\ Definition(child).section = "loop" =>
               Occurrences(r, "loop", Verbatim(child)) >= 2

(***************************************************************************)
(* C20: a template-bearing block without a fixed section is processed with *)
(* the section declared by the container it is nested in, whether or not   *)
(* the container has a placeholder, so that no build call raises           *)
(* CodeGenerationError at a known block nested in a container.             *)
(***************************************************************************)
RECURSIVE Declared(_, _)
Declared(block, section) ==
  {[id |-> block.instance_id, target |-> section]}
  \cup (IF IsUnknown(block) THEN {}
        ELSE UNION { UNION { Declared(child, Definition(block).containers[c].section) :
                             child \in Range(get(block.children, Definition(block).containers[c].name, <<>>)) } :
                     c \in DOMAIN Definition(block).containers })

NestedKnown(id) ==
  /\ id # None
  /\ id # program.root[1].instance_id
  /\ ~IsUnknown(BlockById(id))

C20_EffectiveSection ==
  /\ program.root # <<>> /\ Results # {} =>
       \A t \in Targets(program.root[1], None) :
         (NestedKnown(t.id) /\ Definition(BlockById(t.id)).template # <<>>
            /\ Definition(BlockById(t.id)).section = None)
           => t \in Declared(program.root[1], None)
  /\ \A r \in Results :
       r.exc = "CodeGenerationError" /\ program.root # <<>> => ~NestedKnown(r.raised_at)

(***************************************************************************)
(* C21: in every bundle returned by build, the includes section starts     *)
(* with the baseline include, attributed to no block; it holds each        *)
(* requested (trimmed) include text exactly once, in order of first        *)
(* request, and the line of an include is in the mapping of the first      *)
(* block that requested it and of no other block.                          *)
(***************************************************************************)
Baseline == <<"#include <Arduino.h>">>

IncludeTexts(block) ==
  IF IsUnknown(block) THEN {}
  ELSE { strip(str_format(Definition(block).includes[i],
                          _build_context(block, Definition(block))).text) :
         i \in DOMAIN Definition(block).includes }

Requesters(r, text) == {j \in DOMAIN r.visited : text \in IncludeTexts(BlockById(r.visited[j]))}

FirstRequester(r, text) ==
  r.visited[CHOOSE j \in Requesters(r, text) : \A k \in Requesters(r, text) : j <= k]

MappedAt(r, n) == {id \in DOMAIN r.mapping : n \in Range(r.mapping[id])}

IncludesDeduplicated(r) ==
  /\ r.sections["includes"] # <<>>
  /\ r.sections["includes"][1] = Baseline
  /\ MappedAt(r, 1) = {}
  /\ \A i, j \in DOMAIN r.sections["includes"] :
       r.sections["includes"][i] = r.sections["includes"][j] => i = j
  /\ Range(r.sections["includes"]) =
       {Baseline} \cup UNION { IncludeTexts(BlockById(r.visited[j])) : j \in DOMAIN r.visited }
  /\ \A i \in DOMAIN r.sections["includes"] :
       i > 1 =>
         /\ Requesters(r, r.sections["includes"][i]) # {}
         /\ MappedAt(r, i) = {FirstRequester(r, r.sections["includes"][i])}
         /\ \A j \in DOMAIN r.sections["includes"] :
              (1 < j /\ j < i) =>
                \E a \in Requesters(r, r.sections["includes"][j]) :
                  \A b \in Requesters(r, r.sections["includes"][i]) : a <= b

C21_IncludeDedup == \A r \in Bundles : IncludesDeduplicated(r)

(***************************************************************************)
(* C22: the assembled code of a bundle has the "// ===== Globals ====="    *)
(* line if and only if the bundle's globals section is not empty.          *)
(***************************************************************************)
HasGlobalsHeader(r) == \E i \in DOMAIN PhysicalLines(r.code) : PhysicalLines(r.code)[i] = <<"// ===== Globals =====">>

C22_GlobalsHeader == \A r \in Bundles : HasGlobalsHeader(r) <=> r.sections["globals"] # <<>>

(***************************************************************************)
(* C23: after validate, the populated sections are, for every visited      *)
(* block, its fixed section or else the section of the container it is     *)
(* nested in, plus setup / globals when it carries setup / globals         *)
(* snippets; and a program whose loop container holds a known              *)
(* template-bearing block gets no "loop is empty" diagnostic.              *)
(***************************************************************************)
PopulatedBy(t) ==
  IF IsUnknown(BlockById(t.id)) THEN {}
  ELSE (IF Definition(BlockById(t.id)).section # None THEN {Definition(BlockById(t.id)).section}
        ELSE {t.target} \ {None})
       \cup (IF Definition(BlockById(t.id)).setup_snippets # <<>> THEN {"setup"} ELSE {})
       \cup (IF Definition(BlockById(t.id)).globals_snippets # <<>> THEN {"globals"} ELSE {})

ExpectedPopulated == UNION { PopulatedBy(t) : t \in Declared(program.root[1], None) }

LoopHoldsStatement ==
  \E i \in DOMAIN LoopBlocks :
    ~IsUnknown(LoopBlocks[i]) /\ Definition(LoopBlocks[i]).template # <<>>

C23_PopulatedSections ==
  \A v \in Returns :
    program.root # <<>> /\ Definition(program.root[1]).containers # <<>> =>
      /\ v.used_sections = ExpectedPopulated
      /\ LoopHoldsStatement => ~HasLoopEmptyDiagnostic(v)

(***************************************************************************)
(* C24: after the traversal, validate emits the "loop is empty"            *)
(* diagnostic exactly once when loop was never populated and not           *)
(* otherwise; it emits the "section is empty" diagnostic exactly once for  *)
(* setup when setup was never populated, and never for loop, includes,     *)
(* globals or functions.                                                   *)
(***************************************************************************)
Count(v, err) == Cardinality({k \in DOMAIN v.errors : v.errors[k] = err})

C24_PostTraversal ==
  \A v \in Returns :
    program.root # <<>> =>
      /\ Count(v, ValidationError(MsgLoopEmpty, None)) = IF "loop" \in v.used_sections THEN 0 ELSE 1
      /\ Count(v, ValidationError(MsgSectionEmpty("setup"), None)) =
           IF "setup" \in v.used_sections THEN 0 ELSE 1
      /\ \A sec \in Section \ {"setup"} : Count(v, ValidationError(MsgSectionEmpty(sec), None)) = 0

(***************************************************************************)
(* C25: in the code of every bundle the include lines come first, then the *)
(* globals lines, then "void setup() {" with the whole setup buffer, then  *)
(* "void loop() {" with the whole loop buffer, then the free-function      *)
(* lines; every line of a section buffer is in the code once, inside its   *)
(* own region; the text ends with exactly one newline and has no other     *)
(* trailing whitespace.                                                    *)
(***************************************************************************)
SetupOpen == <<"void setup() {">>

LoopOpen == <<"void loop() {">>

\* the lines strictly between positions a and b are blank, the globals
\* header, or, as one run, the given section lines
OnlyBetween(lines, a, b, own) ==
  /\ Contains(SubSeq(lines, a + 1, b - 1), own)
  /\ NonBlank(SubSeq(lines, a + 1, b - 1)) \in
       { NonBlank(own), <<<<"// ===== Globals =====">>>> \o NonBlank(own) }

\* s and l are the positions of the setup and loop openings
Laid(r, lines, s, l) ==
  /\ SubSeq(lines, 1, Len(SectionLines(r, "includes"))) = SectionLines(r, "includes")
  /\ OnlyBetween(lines, Len(SectionLines(r, "includes")), s, SectionLines(r, "globals"))
  /\ SubSeq(lines, s + 1, s + Len(SectionLines(r, "setup"))) = SectionLines(r, "setup")
  /\ lines[s + Len(SectionLines(r, "setup")) + 1] = <<"}">>
  /\ OnlyBetween(lines, s + Len(SectionLines(r, "setup")) + 1, l, <<>>)
  /\ SubSeq(lines, l + 1, l + Len(SectionLines(r, "loop"))) = SectionLines(r, "loop")
  /\ lines[l + Len(SectionLines(r, "loop")) + 1] = <<"}">>
  /\ OnlyBetween(lines, l + Len(SectionLines(r, "loop")) + 1, Len(lines) + 1,
                 SectionLines(r, "functions"))

OneFinalNewline(code) ==
  /\ Len(code) >= 2
  /\ code[Len(code)] = NL
  /\ ~IsSpace(code[Len(code) - 1])

SectionsInOrder(r) ==
  /\ \E s \in DOMAIN PhysicalLines(r.code) : PhysicalLines(r.code)[s] = SetupOpen
  /\ \E l \in DOMAIN PhysicalLines(r.code) : PhysicalLines(r.code)[l] = LoopOpen
  /\ Laid(r, PhysicalLines(r.code),
          FirstIndex(PhysicalLines(r.code), 1, SetupOpen),
          FirstIndex(PhysicalLines(r.code), 1, LoopOpen))
  /\ OneFinalNewline(r.code)

C25_SectionOrder == \A r \in Bundles : SectionsInOrder(r)

C25_Witness ==
  \E r \in Bundles :
    /\ \A sec \in {"globals", "setup", "loop", "functions"} : r.sections[sec] # <<>>
    /\ Len(r.sections["includes"]) >= 2
    /\ Len(r.sections["loop"]) >= 2

(***************************************************************************)
(* C26: for every block validate visited and every declared parameter,     *)
(* with the effective value being the instance value if present, else the  *)
(* default: there is exactly one "missing parameter" diagnostic naming the *)
(* parameter when there is no value, and none otherwise; for type int      *)
(* there is exactly one diagnostic naming the parameter when the value is  *)
(* not coercible to an integer, and none otherwise; for the types other    *)
(* than int and digital_pin there is no type diagnostic.                   *)
(***************************************************************************)
Coercible(value) == int(value).exc = "none"

ParameterChecked(v, block, param, value) ==
  /\ Count(v, ValidationError(MsgMissingParam(param.name), block.instance_id)) =
       IF value = NoneV THEN 1 ELSE 0
  /\ param.type # "digital_pin" =>
       Count(v, ValidationError(MsgNotInt(param.name), block.instance_id)) =
         IF param.type = "int" /\ value # NoneV /\ ~Coercible(value) THEN 1 ELSE 0

BlockChecked(v, block) ==
  ~IsUnknown(block) =>
    \A i \in DOMAIN Definition(block).parameters :
      ParameterChecked(v, block, Definition(block).parameters[i],
                       EffectiveValue(block, Definition(block).parameters[i]))

C26_ParameterChecks ==
  \A v \in Range(validation) : \A j \in DOMAIN v.visited : BlockChecked(v, BlockById(v.visited[j]))

(***************************************************************************)
(* C27: a remove_block(uid) step, from any state the create_block /        *)
(* add_connection / remove_connection / remove_block calls lead to, leaves *)
(* no block with that uid and no connection from or to it, and keeps every *)
(* other block and every connection not touching uid, unchanged, as often  *)
(* as before and in the order they had.                                    *)
(***************************************************************************)
Touches(conn, uid) == conn.from_block_uid = uid \/ conn.to_block_uid = uid

Times(seq, x) == Cardinality({i \in DOMAIN seq : seq[i] = x})

Cascaded(before, after, uid) ==
  /\ \A i \in DOMAIN after.blocks : after.blocks[i].uid # uid
  /\ \A i \in DOMAIN after.connections : ~Touches(after.connections[i], uid)
  /\ IsSubsequence(after.blocks, before.blocks)
  /\ IsSubsequence(after.connections, before.connections)
  /\ \A i \in DOMAIN before.blocks :
       before.blocks[i].uid # uid =>
         Times(after.blocks, before.blocks[i]) = Times(before.blocks, before.blocks[i])
  /\ \A i \in DOMAIN before.connections :
       ~Touches(before.connections[i], uid) =>
         Times(after.connections, before.connections[i]) =
           Times(before.connections, before.connections[i])

C27_RemoveBlockCascade ==
  [][last'.op = "remove_block" =>
       last'.before = project /\ Cascaded(project, project', last'.uid)]_vars

\* a remove_block that removed a block and a connection and left others
C27_Witness ==
  /\ last.op = "remove_block"
  /\ \E i \in DOMAIN last.before.blocks : last.before.blocks[i].uid = last.uid
  /\ \E i \in DOMAIN last.before.connections : Touches(last.before.connections[i], last.uid)
  /\ project.blocks # <<>>
  /\ project.connections # <<>>

(***************************************************************************)
(* C28: in every bundle a build on a new generator returns, the line list  *)
(* of each block in the mapping is strictly increasing, each number in it  *)
(* is between 1 and the number of physical lines of the code, and no       *)
(* number is in the lists of two blocks.                                   *)
(***************************************************************************)
\* the bundles of build_sketch, and the bundle of the only build call made
\* on the generator object so far
FreshBundles ==
  {r \in Range(sketches) : r.exc = "none"}
  \cup {r \in Range(builds) : Len(builds) = 1 /\ r.exc = "none"}

MappingWellFormed(r) ==
  \A id \in DOMAIN r.mapping :
    /\ \A k \in 1..(Len(r.mapping[id]) - 1) : r.mapping[id][k] < r.mapping[id][k + 1]
    /\ \A k \in DOMAIN r.mapping[id] : r.mapping[id][k] \in 1..Len(splitlines(r.code))
    /\ \A other \in DOMAIN r.mapping \ {id} :
         Range(r.mapping[id]) \cap Range(r.mapping[other]) = {}

C28_MappingWellFormed == \A r \in FreshBundles : MappingWellFormed(r)

C28_Witness ==
  /\ \E r \in Range(sketches) :
       /\ r.exc = "none"
       /\ Cardinality(DOMAIN r.mapping) >= 3
       /\ \E id \in DOMAIN r.mapping : Len(r.mapping[id]) >= 4
  /\ Len(builds) = 1 /\ builds[1].exc = "none" /\ Cardinality(DOMAIN builds[1].mapping) >= 3

(***************************************************************************)
(* C29: when validate returns an empty list of diagnostics for the         *)
(* program, no build or build_sketch call on the same program, registry    *)
(* and board raises CodeGenerationError.                                   *)
(***************************************************************************)
C29_ValidatedGenerates ==
  (\E v \in Returns : v.errors = <<>>) =>
    \A r \in Results : r.exc # "CodeGenerationError"

(***************************************************************************)
(* C30: from a scene without connections, through any add_block_at,        *)
(* begin_connection, complete_connection and remove_selected calls, the    *)
(* graph of the project model's connections (from_block_uid ->             *)
(* to_block_uid) has no self-loop and no directed cycle; and a             *)
(* complete_connection that would close a cycle leaves the model's         *)
(* connections as they were.                                               *)
(***************************************************************************)
Edges(connections) ==
  {<<connections[i].from_block_uid, connections[i].to_block_uid>> : i \in DOMAIN connections}

RECURSIVE ReachedIn(_, _, _)
\* the nodes reached from the set by one to k edges
ReachedIn(edges, from, k) ==
  IF k = 0 THEN {}
  ELSE {e[2] : e \in {e \in edges : e[1] \in from}}
       \cup ReachedIn(edges, {e[2] : e \in {e \in edges : e[1] \in from}}, k - 1)

Cyclic(edges) ==
  \E e \in edges : e[1] \in ReachedIn(edges, {e[1]}, Cardinality(edges))

WouldCloseCycle ==
  /\ last'.op = "complete_connection"
  /\ last'.before # <<>>
  /\ Cyclic(Edges(project.connections) \cup {<<last'.before[1].uid, last'.uid>>})

C30_Acyclic ==
  /\ [](scene # <<>> => ~Cyclic(Edges(project.connections)))
  /\ [][WouldCloseCycle => project'.connections = project.connections]_vars

\* a connection from the end of a chain of two connections back to its start
\* was refused
C30_Witness ==
  /\ last.op = "complete_connection"
  /\ last.before # <<>>
  /\ last.before[1].uid # last.uid
  /\ scene.status = StatusCycle
  /\ Len(project.connections) >= 2
  /\ Cyclic(Edges(project.connections) \cup {<<last.before[1].uid, last.uid>>})

====
